---- MODULE Spec2Model ----
(***************************************************************************)
(* Model of the lease / invoice comparison core of src/app.py:             *)
(* categorize_charge, find_relevant_clause, check_violation and            *)
(* compare_lease_invoice.                                                  *)
(*                                                                         *)
(* Python str values are TLA+ strings, handled with Len, SubSeq and \o.    *)
(* Python float values are binary floating-point numbers m * 2^e with a    *)
(* significand of MantBits bits and round-to-nearest-even after every      *)
(* operation (IEEE 754 arithmetic, with a narrower significand than the    *)
(* 53 bits of a Python float so that the integers stay in TLC's range).    *)
(***************************************************************************)
EXTENDS Integers, Sequences, FiniteSets, TLC

\* ------------------------------------------------------------------ bounds

\* Significand width of the modelled float (53 in CPython).
MantBits == 8

\* Longest invoice (number of line items) the model builds.
MaxItems == 3

\* ----------------------------------------------------------------- strings

\* str.lower() on one character (ASCII letters).
LowerChar(c) ==
    CASE c = "A" -> "a" [] c = "B" -> "b" [] c = "C" -> "c" [] c = "D" -> "d"
      [] c = "E" -> "e" [] c = "F" -> "f" [] c = "G" -> "g" [] c = "H" -> "h"
      [] c = "I" -> "i" [] c = "J" -> "j" [] c = "K" -> "k" [] c = "L" -> "l"
      [] c = "M" -> "m" [] c = "N" -> "n" [] c = "O" -> "o" [] c = "P" -> "p"
      [] c = "Q" -> "q" [] c = "R" -> "r" [] c = "S" -> "s" [] c = "T" -> "t"
      [] c = "U" -> "u" [] c = "V" -> "v" [] c = "W" -> "w" [] c = "X" -> "x"
      [] c = "Y" -> "y" [] c = "Z" -> "z" [] OTHER -> c

\* str.lower()
RECURSIVE Lower(_)
Lower(s) ==
    IF Len(s) = 0 THEN ""
    ELSE LowerChar(SubSeq(s, 1, 1)) \o Lower(SubSeq(s, 2, Len(s)))

\* The characters str.strip() and str.split() treat as whitespace.
IsSpace(c) == c \in {" ", "\t", "\n", "\r"}

\* str.lstrip()
RECURSIVE LStrip(_)
LStrip(s) ==
    IF Len(s) > 0 /\ IsSpace(SubSeq(s, 1, 1)) THEN LStrip(SubSeq(s, 2, Len(s)))
    ELSE s

\* str.rstrip()
RECURSIVE RStrip(_)
RStrip(s) ==
    IF Len(s) > 0 /\ IsSpace(SubSeq(s, Len(s), Len(s)))
    THEN RStrip(SubSeq(s, 1, Len(s) - 1))
    ELSE s

\* str.strip()
Strip(s) == RStrip(LStrip(s))

\* Python's `needle in haystack` on strings (the empty string is in every string).
Contains(haystack, needle) ==
    \E i \in 1..(Len(haystack) - Len(needle) + 1) :
        SubSeq(haystack, i, i + Len(needle) - 1) = needle

\* any(keyword in text for keyword in keywords)
ContainsAny(text, keywords) == \E k \in keywords : Contains(text, k)

\* Length of the first whitespace-free run of s.
RECURSIVE WordLen(_)
WordLen(s) ==
    IF Len(s) = 0 \/ IsSpace(SubSeq(s, 1, 1)) THEN 0
    ELSE 1 + WordLen(SubSeq(s, 2, Len(s)))

\* str.split(): the set of whitespace-separated words of s.
RECURSIVE Words(_)
Words(s) ==
    LET t == LStrip(s)
        n == WordLen(t)
    IN  IF Len(t) = 0 THEN {}
        ELSE {SubSeq(t, 1, n)} \cup Words(SubSeq(t, n + 1, Len(t)))

\* s[:n]
Prefix(s, n) == IF Len(s) <= n THEN s ELSE SubSeq(s, 1, n)

\* ------------------------------------------------------------------ floats

Abs(n) == IF n < 0 THEN -n ELSE n

RECURSIVE Pow2(_)
Pow2(k) == IF k <= 0 THEN 1 ELSE 2 * Pow2(k - 1)

\* Number of bits of the natural number n (0 for 0).
RECURSIVE BitLen(_)
BitLen(n) == IF n = 0 THEN 0 ELSE 1 + BitLen(n \div 2)

\* The float m * 2^e in its unique form: m odd, or m = 0 and e = 0.
RECURSIVE Norm(_, _)
Norm(m, e) ==
    IF m = 0 THEN [m |-> 0, e |-> 0]
    ELSE IF m % 2 = 0 THEN Norm(m \div 2, e + 1)
    ELSE [m |-> m, e |-> e]

\* The float nearest to the exact value m * 2^e: the significand is cut to
\* MantBits bits, rounding to nearest and a tie to the even significand.
RoundTo(m, e) ==
    LET a == Abs(m)
        shift == BitLen(a) - MantBits
    IN  IF shift <= 0 THEN Norm(m, e)
        ELSE LET q == a \div Pow2(shift)
                 r == a % Pow2(shift)
                 half == Pow2(shift - 1)
                 up == r > half \/ (r = half /\ q % 2 = 1)
                 q2 == IF up THEN q + 1 ELSE q
             IN  Norm(IF m < 0 THEN -q2 ELSE q2, e + shift)

\* float(n) for an integer n.
FromInt(n) == RoundTo(n, 0)

Min(a, b) == IF a <= b THEN a ELSE b

\* The integer x / 2^e0 for a float x whose exponent is at least e0.
Scaled(x, e0) == x.m * Pow2(x.e - e0)

\* x + y
FAdd(x, y) ==
    LET e0 == Min(x.e, y.e)
    IN  RoundTo(Scaled(x, e0) + Scaled(y, e0), e0)

\* x - y
FSub(x, y) ==
    LET e0 == Min(x.e, y.e)
    IN  RoundTo(Scaled(x, e0) - Scaled(y, e0), e0)

\* x * y
FMul(x, y) == RoundTo(x.m * y.m, x.e + y.e)

\* x / y for y # 0: the quotient is taken to 2 * MantBits + 2 bits, the
\* remainder is kept as a sticky bit, and the result is rounded once.
FDiv(x, y) ==
    LET k == 2 * MantBits + 2
        n == Abs(x.m) * Pow2(k)
        d == Abs(y.m)
        q == n \div d
        sticky == IF n % d = 0 THEN 0 ELSE 1
        neg == (x.m < 0) # (y.m < 0)
        mag == 2 * q + sticky
    IN  RoundTo(IF neg THEN -mag ELSE mag, x.e - y.e - k - 1)

\* The sign of x - y, computed exactly: -1, 0 or 1.
FCmp(x, y) ==
    LET e0 == Min(x.e, y.e)
        d == Scaled(x, e0) - Scaled(y, e0)
    IN  IF d < 0 THEN -1 ELSE IF d > 0 THEN 1 ELSE 0

FGt(x, y) == FCmp(x, y) = 1
FLe(x, y) == FCmp(x, y) <= 0

\* The exact value of 10 * x rounded to an integer, a tie going to the even
\* integer: the digits that the format specification .1f prints.
Tenths(x) ==
    IF x.e >= 0 THEN 10 * x.m * Pow2(x.e)
    ELSE LET n == 10 * Abs(x.m)
             d == Pow2(-x.e)
             q == n \div d
             r == n % d
             up == 2 * r > d \/ (2 * r = d /\ q % 2 = 1)
             t == IF up THEN q + 1 ELSE q
         IN  IF x.m < 0 THEN -t ELSE t

\* f"{x:.1f}"
Format1f(x) ==
    LET t == Tenths(x)
        digits == ToString(Abs(t) \div 10) \o "." \o ToString(Abs(t) % 10)
    IN  IF x.m < 0 THEN "-" \o digits ELSE digits

\* -------------------------------------------------------------- data model

\* Python's None where a dict is expected (a lease, a stored report).
None == [None |-> TRUE]

\* Python's None where a list is expected: no list has the index 0.
NoneList == [i \in {0} |-> "None"]

\* Python's None where a str is expected (the category of a clause lookup,
\* the reason of a non-violating verdict).
NoneStr == "None"

\* Variant of FalsyDict: only None counts, an empty dict does not.
IsNoneDict(d) == d = None

\* `not value` for a dict-typed value: None, or a dict without keys.
FalsyDict(d) == d = None \/ DOMAIN d = {}

\* `not value` for a list-typed value: None, or a list without elements.
FalsyList(l) == 0 \in DOMAIN l \/ Len(l) = 0

\* dict.get(key, default)
Get(d, key, default) == IF key \in DOMAIN d THEN d[key] ELSE default

\* A list element that is a plain str (the regex extractor's fee and CAM
\* entries) is wrapped as [str |-> text]; every other element is a dict.
StrEntry(text) == [str |-> text]

\* isinstance(entry, dict)
IsDict(entry) == "str" \notin DOMAIN entry

\* A ClauseItem as the AI extraction returns it.
ClauseItem(wording, reference) ==
    [exact_wording |-> wording, clause_reference |-> reference]

\* The placeholder smooth_lease_item stores for a missing clause reference.
Sentinel == "See lease document"

\* --------------------------------------------------------- categorize_charge

\* The rows of the categories table, in the dict's insertion order.
CategoryRows ==
    << [category |-> "CAM", keywords |-> {"cam", "common area", "maintenance"}],
       [category |-> "Tax", keywords |-> {"tax", "property tax", "real estate"}],
       [category |-> "Utilities",
        keywords |-> {"utility", "electric", "water", "gas", "sewer", "trash"}],
       [category |-> "Rent", keywords |-> {"rent", "base rent", "monthly rent"}],
       [category |-> "Insurance", keywords |-> {"insurance", "liability"}],
       [category |-> "Other", keywords |-> {}] >>

\* The loop over categories.items() from row k on.
RECURSIVE CategorizeFrom(_, _)
CategorizeFrom(desc_lower, k) ==
    IF k > Len(CategoryRows) THEN "Other"
    ELSE IF CategoryRows[k].category = "Other" THEN CategorizeFrom(desc_lower, k + 1)
    ELSE IF ContainsAny(desc_lower, CategoryRows[k].keywords)
         THEN CategoryRows[k].category
    ELSE CategorizeFrom(desc_lower, k + 1)

\* Variant of categorize_charge: the description is matched as written.
categorize_charge_verbatim(description) == CategorizeFrom(description, 1)

\* desc_lower = description.lower(), then the loop.
categorize_charge(description) == CategorizeFrom(Lower(description), 1)

\* ------------------------------------------------------ find_relevant_clause

\* Variant of IsRealRef: the sentinel is compared as written.
IsRealRefVerbatim(clause_ref) == Len(clause_ref) > 0 /\ clause_ref # "see lease document"

\* clause_ref and clause_ref.lower() != 'see lease document'
IsRealRef(clause_ref) == Len(clause_ref) > 0 /\ Lower(clause_ref) # "see lease document"

\* The test of the two fee loops: the element has an exact_wording that
\* contains the search term, both lowercased.
WordingHasTerm(fee_item, search_term) ==
    /\ "exact_wording" \in DOMAIN fee_item
    /\ Contains(Lower(fee_item.exact_wording), Lower(search_term))

\* The references one `for` loop over a section appends to clause_refs, from
\* position k on: of each element that is a dict (and, in the two fee loops,
\* by_term, whose wording has the search term), the stripped clause_reference
\* when it is non-empty and not the placeholder.
RECURSIVE CollectRefs(_, _, _, _)
CollectRefs(section, k, by_term, search_term) ==
    IF k > Len(section) THEN << >>
    ELSE LET item == section[k]
             rest == CollectRefs(section, k + 1, by_term, search_term)
         IN  IF /\ IsDict(item)
                /\ (by_term => WordingHasTerm(item, search_term))
                /\ IsRealRef(Strip(Get(item, "clause_reference", "")))
             THEN <<Strip(Get(item, "clause_reference", ""))>> \o rest
             ELSE rest

\* Variant of FirstRefOfSections: no section is scanned.
NoFallback(sections, s) == ""

\* The fallback loop: the first real reference of the sections from s on.
RECURSIVE FirstRefOfSections(_, _)
FirstRefOfSections(sections, s) ==
    IF s > Len(sections) THEN ""
    ELSE LET refs == CollectRefs(sections[s], 1, FALSE, "")
         IN  IF Len(refs) > 0 THEN refs[1] ELSE FirstRefOfSections(sections, s + 1)

\* Variant of find_relevant_clause: the last collected reference is returned.
find_relevant_clause_last(lease_data, search_term, category) ==
    LET term == Lower(search_term)
        fee_refs(key) == CollectRefs(Get(lease_data, key, << >>), 1, TRUE, search_term)
        any_refs(key) == CollectRefs(Get(lease_data, key, << >>), 1, FALSE, search_term)
        clause_refs ==
            fee_refs("disallowed_fees")
            \o fee_refs("allowed_fees")
            \o (IF category = "CAM" \/ Contains(term, "cam") \/ Contains(term, "common area")
                THEN any_refs("cam_rules") ELSE << >>)
            \o (IF Contains(term, "utility") \/ category = "Utilities"
                THEN any_refs("utilities_details") ELSE << >>)
            \o (IF Contains(term, "tax") \/ category = "Tax"
                THEN any_refs("taxes_details") ELSE << >>)
            \o (IF Contains(term, "escalation") \/ Contains(term, "cap")
                THEN any_refs("escalation_caps_details") ELSE << >>)
        all_sections ==
            << Get(lease_data, "cam_rules", << >>),
               Get(lease_data, "disallowed_fees", << >>),
               Get(lease_data, "allowed_fees", << >>),
               Get(lease_data, "utilities_details", << >>),
               Get(lease_data, "taxes_details", << >>),
               Get(lease_data, "escalation_caps_details", << >>) >>
    IN  IF Len(clause_refs) > 0 THEN clause_refs[Len(clause_refs)]
        ELSE FirstRefOfSections(all_sections, 1)

\* The body of find_relevant_clause: clause_refs, then the fallback.
find_relevant_clause(lease_data, search_term, category) ==
    LET term == Lower(search_term)
        fee_refs(key) == CollectRefs(Get(lease_data, key, << >>), 1, TRUE, search_term)
        any_refs(key) == CollectRefs(Get(lease_data, key, << >>), 1, FALSE, search_term)
        clause_refs ==
            fee_refs("disallowed_fees")
            \o fee_refs("allowed_fees")
            \o (IF category = "CAM" \/ Contains(term, "cam") \/ Contains(term, "common area")
                THEN any_refs("cam_rules") ELSE << >>)
            \o (IF Contains(term, "utility") \/ category = "Utilities"
                THEN any_refs("utilities_details") ELSE << >>)
            \o (IF Contains(term, "tax") \/ category = "Tax"
                THEN any_refs("taxes_details") ELSE << >>)
            \o (IF Contains(term, "escalation") \/ Contains(term, "cap")
                THEN any_refs("escalation_caps_details") ELSE << >>)
        all_sections ==
            << Get(lease_data, "cam_rules", << >>),
               Get(lease_data, "disallowed_fees", << >>),
               Get(lease_data, "allowed_fees", << >>),
               Get(lease_data, "utilities_details", << >>),
               Get(lease_data, "taxes_details", << >>),
               Get(lease_data, "escalation_caps_details", << >>) >>
    IN  IF Len(clause_refs) > 0 THEN clause_refs[1]
        ELSE FirstRefOfSections(all_sections, 1)

\* ----------------------------------------------------------- check_violation

\* The tuple check_violation returns.
Verdict(is_violation, reason, explanation, clause_reference) ==
    [is_violation |-> is_violation, reason |-> reason,
     explanation |-> explanation, clause_reference |-> clause_reference]

\* return (False, None, None, None)
NotViolating == Verdict(FALSE, NoneStr, NoneStr, NoneStr)

\* f" (See {clause_ref})" if clause_ref else ""
ClauseText(clause_ref) ==
    IF Len(clause_ref) > 0 THEN " (See " \o clause_ref \o ")" ELSE ""

utility_markup_keywords ==
    {"utility admin", "admin fee", "utility markup", "utility surcharge",
     "utility processing", "utility handling", "utility service fee"}

legal_keywords == {"legal fee", "attorney", "lawyer", "legal cost", "litigation"}

\* Variant of tenant_terms: the terms that name the tenant's default only.
default_terms == {"collection", "default", "breach"}

tenant_terms == {"eviction", "collection", "tenant", "default", "breach"}

capital_improvement_keywords ==
    {"roof", "capital improvement", "capital expenditure", "renovation",
     "remodeling", "structural", "building improvement", "facility upgrade",
     "hvac replacement", "plumbing replacement", "electrical upgrade"}

management_keywords ==
    {"management fee", "property management", "management charge", "mgmt fee"}

cam_exclusions ==
    {"capital", "improvement", "roof", "structural", "renovation", "upgrade"}

\* Rule 1: utility admin fee / markup.
UtilityMarkupVerdict(lease_data) ==
    LET first == find_relevant_clause(lease_data, "utility", "Utilities")
        clause_ref == IF Len(first) = 0
                      THEN find_relevant_clause(lease_data, "disallowed", NoneStr)
                      ELSE first
    IN  Verdict(TRUE, "Utility Admin Fee / Markup",
                "Utility markups and administrative fees are typically not allowed unless explicitly stated in the lease"
                \o ClauseText(clause_ref)
                \o ". These are pass-through charges and landlords cannot add markups.",
                clause_ref)

\* Rule 2: legal fees unrelated to the tenant.
LegalFeeVerdict(lease_data) ==
    LET clause_ref == find_relevant_clause(lease_data, "legal", NoneStr)
    IN  Verdict(TRUE, "Legal Fees Unrelated to Tenant",
                "Legal fees that are not related to tenant actions (like eviction or collection) are typically not chargeable to tenants"
                \o ClauseText(clause_ref)
                \o ". General legal fees for landlord operations should not be passed through.",
                clause_ref)

\* Rule 3: capital improvements.
CapitalImprovementVerdict(lease_data) ==
    LET clause_ref == find_relevant_clause(lease_data, "capital", "CAM")
    IN  Verdict(TRUE, "Capital Improvement Charge",
                "Capital improvements and major repairs (like roof replacement, HVAC systems, structural work) are typically the landlord's responsibility and should not be charged to tenants"
                \o ClauseText(clause_ref)
                \o ". These are long-term investments that benefit the property owner.",
                clause_ref)

\* management_percentage = (amount / total_invoice) * 100
ManagementPercentage(amount, total_invoice) ==
    FMul(FDiv(amount, total_invoice), FromInt(100))

\* Variant of OverFivePercent: 5% itself counts as over.
AtLeastFivePercent(management_percentage) ==
    FCmp(management_percentage, FromInt(5)) >= 0

\* management_percentage > 5
OverFivePercent(management_percentage) == FGt(management_percentage, FromInt(5))

\* Rule 4, first part: the management fee exceeds 5% of the invoice.
ManagementOverVerdict(lease_data, management_percentage) ==
    LET clause_ref == find_relevant_clause(lease_data, "management", NoneStr)
        pct == Format1f(management_percentage)
    IN  Verdict(TRUE, "Management Fee Over 5% (" \o pct \o "%)",
                "Management fees exceeding 5% of total charges are typically excessive"
                \o ClauseText(clause_ref)
                \o ". This charge represents " \o pct
                \o "% of the total invoice, which exceeds the standard 5% cap.",
                clause_ref)

\* fee_item.get('exact_wording', '') of a dict, str(fee_item) of anything else.
FeeText(fee_item) ==
    IF IsDict(fee_item) THEN Get(fee_item, "exact_wording", "") ELSE fee_item.str

\* Rule 4, second part: the loop over disallowed_fees from position k on,
\* looking for an entry that names "management"; NotViolating when the loop
\* ends without a return.
RECURSIVE ManagementDisallowedFrom(_, _)
ManagementDisallowedFrom(disallowed_fees, k) ==
    IF k > Len(disallowed_fees) THEN NotViolating
    ELSE LET fee_item == disallowed_fees[k]
             clause_ref == IF IsDict(fee_item)
                           THEN Get(fee_item, "clause_reference", "") ELSE ""
         IN  IF Contains(Lower(FeeText(fee_item)), "management")
             THEN Verdict(TRUE, "Management Fee Not Allowed",
                          "Management fees are explicitly disallowed per the lease terms"
                          \o ClauseText(clause_ref) \o ".",
                          clause_ref)
             ELSE ManagementDisallowedFrom(disallowed_fees, k + 1)

\* Rule 4 as a whole; NotViolating when it falls through to rule 5.
ManagementVerdict(amount, lease_data, total_invoice) ==
    IF FGt(total_invoice, FromInt(0))
    THEN IF OverFivePercent(ManagementPercentage(amount, total_invoice))
         THEN ManagementOverVerdict(lease_data,
                                    ManagementPercentage(amount, total_invoice))
         ELSE ManagementDisallowedFrom(Get(lease_data, "disallowed_fees", << >>), 1)
    ELSE NotViolating

\* The test of rule 5: the lowercased disallowed text occurs in the
\* description, or one of its words longer than 3 characters does.
\* Variant of DisallowedMatches: a word of any length counts.
DisallowedMatchesAnyWord(disallowed_lower, desc_lower) ==
    \/ Contains(desc_lower, disallowed_lower)
    \/ \E word \in Words(disallowed_lower) : Contains(desc_lower, word)

\* disallowed_lower in desc_lower or any(word in desc_lower for word in
\* disallowed_lower.split() if len(word) > 3)
DisallowedMatches(disallowed_lower, desc_lower) ==
    \/ Contains(desc_lower, disallowed_lower)
    \/ \E word \in Words(disallowed_lower) : Len(word) > 3 /\ Contains(desc_lower, word)

\* The clause reference rule 5 reports for one entry.
DisallowedClauseRef(disallowed, lease_data) ==
    IF IsDict(disallowed)
    THEN LET own == Strip(Get(disallowed, "clause_reference", ""))
         IN  IF Len(own) = 0 \/ Lower(own) = "see lease document"
             THEN find_relevant_clause(lease_data, "disallowed", NoneStr)
             ELSE own
    ELSE find_relevant_clause(lease_data, "disallowed", NoneStr)

\* Rule 5: the loop over disallowed_fees from position k on; NotViolating
\* when no entry matches.
RECURSIVE DisallowedFeeFrom(_, _, _, _)
DisallowedFeeFrom(disallowed_fees, k, desc_lower, lease_data) ==
    IF k > Len(disallowed_fees) THEN NotViolating
    ELSE LET disallowed_text == FeeText(disallowed_fees[k])
             clause_ref == DisallowedClauseRef(disallowed_fees[k], lease_data)
         IN  IF DisallowedMatches(Lower(disallowed_text), desc_lower)
             THEN Verdict(TRUE, "Disallowed Fee: " \o Prefix(disallowed_text, 50),
                          "This fee type is explicitly disallowed per the lease terms"
                          \o ClauseText(clause_ref) \o ": '" \o disallowed_text \o "'",
                          clause_ref)
             ELSE DisallowedFeeFrom(disallowed_fees, k + 1, desc_lower, lease_data)

\* Rule 6: a CAM charge that names a capital item.
NonCamVerdict(lease_data) ==
    LET clause_ref == find_relevant_clause(lease_data, "cam", "CAM")
    IN  Verdict(TRUE, "Non-CAM Item in CAM Charges",
                "This charge appears to be a capital improvement or non-CAM item incorrectly categorized as CAM"
                \o ClauseText(clause_ref)
                \o ". CAM should only include common area maintenance, not capital improvements.",
                clause_ref)

\* Rules 5 and 6, reached when rules 1 to 4 returned nothing.
DisallowedOrCam(desc_lower, category, lease_data) ==
    LET fifth == DisallowedFeeFrom(Get(lease_data, "disallowed_fees", << >>), 1,
                                   desc_lower, lease_data)
    IN  IF fifth.is_violation THEN fifth
        ELSE IF category = "CAM" /\ ContainsAny(desc_lower, cam_exclusions)
             THEN NonCamVerdict(lease_data)
        ELSE NotViolating

\* Rules 4 to 6, reached when rules 1 to 3 returned nothing.
ManagementOrLater(desc_lower, amount, category, lease_data, total_invoice) ==
    LET fourth == IF ContainsAny(desc_lower, management_keywords)
                  THEN ManagementVerdict(amount, lease_data, total_invoice)
                  ELSE NotViolating
    IN  IF fourth.is_violation THEN fourth
        ELSE DisallowedOrCam(desc_lower, category, lease_data)

\* Variant of check_violation: the disallowed-fee scan and the CAM exclusions
\* come before the other rules.
check_violation_scan_first(description, amount, category, lease_data, total_invoice) ==
    LET desc_lower == Lower(description)
        scanned == DisallowedOrCam(desc_lower, category, lease_data)
    IN  IF scanned.is_violation THEN scanned
        ELSE IF ContainsAny(desc_lower, utility_markup_keywords)
        THEN UtilityMarkupVerdict(lease_data)
        ELSE IF /\ ContainsAny(desc_lower, legal_keywords)
                /\ ~ContainsAny(desc_lower, tenant_terms)
        THEN LegalFeeVerdict(lease_data)
        ELSE IF ContainsAny(desc_lower, capital_improvement_keywords)
        THEN CapitalImprovementVerdict(lease_data)
        ELSE ManagementOrLater(desc_lower, amount, category, lease_data, total_invoice)

\* The six rules in the order of the function body.
check_violation(description, amount, category, lease_data, total_invoice) ==
    LET desc_lower == Lower(description)
    IN  IF ContainsAny(desc_lower, utility_markup_keywords)
        THEN UtilityMarkupVerdict(lease_data)
        ELSE IF /\ ContainsAny(desc_lower, legal_keywords)
                /\ ~ContainsAny(desc_lower, tenant_terms)
        THEN LegalFeeVerdict(lease_data)
        ELSE IF ContainsAny(desc_lower, capital_improvement_keywords)
        THEN CapitalImprovementVerdict(lease_data)
        ELSE ManagementOrLater(desc_lower, amount, category, lease_data, total_invoice)

\* ------------------------------------------------------------------- inputs

\* A LineItem as the extractors build it.
LineItem(description, amount, category, line_number) ==
    [description |-> description, amount |-> amount,
     category |-> category, line_number |-> line_number]

Categories == {"CAM", "Tax", "Utilities", "Rent", "Insurance", "Other"}

\* A lease as extract_lease_fields returns it on the AI path; the dicts taxes,
\* utilities and escalation_caps (type -> wording) are kept as their values.
AiLease(cam_rules, taxes_details, utilities_details, escalation_caps_details, allowed_fees, disallowed_fees) ==
    [cam_rules |-> cam_rules,
     taxes |-> [i \in 1..Len(taxes_details) |-> taxes_details[i].exact_wording],
     taxes_details |-> taxes_details,
     utilities |-> [i \in 1..Len(utilities_details) |-> utilities_details[i].exact_wording],
     utilities_details |-> utilities_details,
     escalation_caps |->
        [i \in 1..Len(escalation_caps_details) |-> escalation_caps_details[i].exact_wording],
     escalation_caps_details |-> escalation_caps_details,
     allowed_fees |-> allowed_fees,
     disallowed_fees |-> disallowed_fees,
     raw_text |-> "LEASE AGREEMENT"]

\* A lease as extract_lease_fields_regex returns it: plain strings in the
\* lists, no *_details keys.
RegexLease(cam_rules, allowed_fees, disallowed_fees) ==
    [cam_rules |-> cam_rules,
     taxes |-> << >>,
     utilities |-> << >>,
     escalation_caps |-> << >>,
     allowed_fees |-> allowed_fees,
     disallowed_fees |-> disallowed_fees,
     raw_text |-> "lease agreement"]

\* The leases the model runs on.
LeasePool ==
    << \* the lease of the specification's rule-ordering scenario
       AiLease(<< >>, << >>, << >>, << >>, << >>,
               <<ClauseItem("administrative fee", "Section 4.2")>>),
       \* a lease with citations in every section
       AiLease(<<ClauseItem("Tenant pays its share of common area maintenance", "Section 5.1")>>,
               <<ClauseItem("Tenant pays property taxes", "Article 4")>>,
               <<ClauseItem("Utilities are billed at cost", "Section 6")>>,
               <<ClauseItem("Increases are capped at 3% a year", "Section 8")>>,
               <<ClauseItem("Utility charges at cost", "Section 7.3")>>,
               <<ClauseItem("Management fees", Sentinel),
                 ClauseItem("Late charge penalties and interest on overdue amounts are not payable",
                            " Section 9 ")>>),
       \* a lease in which no entry carries a citation
       AiLease(<<ClauseItem("Roof repairs are excluded from CAM", "See Lease Document")>>,
               << >>,
               <<ClauseItem("Tenant pays electric", Sentinel)>>,
               << >>,
               <<ClauseItem("Base rent", " see lease document ")>>,
               <<ClauseItem("Property management charges", Sentinel),
                 ClauseItem("Admin fee", "SEE LEASE DOCUMENT")>>),
       \* a lease of the regex extractor
       RegexLease(<<StrEntry("tenant pays a share of maintenance")>>,
                  <<StrEntry("base rent")>>,
                  <<StrEntry("late fees"), StrEntry("management fee")>>),
       \* a lease with a disallowed entry whose wording is empty
       AiLease(<<ClauseItem("CAM excludes capital items", "Section 5")>>,
               << >>, << >>, << >>, << >>,
               <<ClauseItem("", "Section 2")>>) >>

\* The values a caller can pass as lease_data: a lease, an empty dict, None.
LeaseArgs == 0..(Len(LeasePool) + 1)
LeaseArg(k) ==
    IF k = 0 THEN None
    ELSE IF k > Len(LeasePool) THEN << >>
    ELSE LeasePool[k]

\* The charges the invoices are made of (line_number is set per invoice).
ItemPool ==
    << LineItem("Base Rent", FromInt(1000), "Rent", 0),
       LineItem(" base rent ", FromInt(3), "Rent", 0),
       LineItem("Property Management Fee", FromInt(60), "Other", 0),
       LineItem("Utility Admin Fee - March", FromInt(50), "Utilities", 0),
       LineItem("Roof Upgrade", FromInt(255), "CAM", 0),
       LineItem("Late Charge", FromInt(0), "Other", 0),
       LineItem("Credit Adjustment", FromInt(-60), "Other", 0) >>

\* The invoice made of the pool's charges picks[1], picks[2], ..., numbered
\* 1..N as the extractors number them.
MakeInvoice(picks) ==
    [i \in 1..Len(picks) |->
        LineItem(ItemPool[picks[i]].description, ItemPool[picks[i]].amount,
                 ItemPool[picks[i]].category, i)]

\* Every invoice of at most MaxItems charges.
InvoicePicks == UNION {[1..n -> 1..Len(ItemPool)] : n \in 0..MaxItems}

\* ------------------------------------------------ extract_invoice_line_items

\* s[p] for a 1-based p, the empty string past the end.
At(s, p) == IF p >= 1 /\ p <= Len(s) THEN SubSeq(s, p, p) ELSE ""

\* \d
IsDigit(c) == c \in {"0", "1", "2", "3", "4", "5", "6", "7", "8", "9"}

\* Length of the run of [0-9,] that starts at s[p].
RECURSIVE AmountRun(_, _)
AmountRun(s, p) ==
    IF IsDigit(At(s, p)) \/ At(s, p) = "," THEN 1 + AmountRun(s, p + 1) ELSE 0

\* Length of the run of \d that starts at s[p], at most most.
RECURSIVE DigitRun(_, _, _)
DigitRun(s, p, most) ==
    IF most > 0 /\ IsDigit(At(s, p)) THEN 1 + DigitRun(s, p + 1, most - 1) ELSE 0

\* amount_pattern = \$?([0-9,]+\.?\d{0,2}) tried at s[p]: the group and the
\* position after the match; stop = 0 when it does not match there.
AmountAt(s, p) ==
    LET q == IF At(s, p) = "$" THEN p + 1 ELSE p
        run == AmountRun(s, q)
        dot == IF At(s, q + run) = "." THEN 1 ELSE 0
        stop == q + run + dot + DigitRun(s, q + run + dot, 2)
    IN  IF run = 0 THEN [start |-> p, stop |-> 0, group |-> ""]
        ELSE [start |-> p, stop |-> stop, group |-> SubSeq(s, q, stop - 1)]

\* re.findall / re.split: the matches of amount_pattern in s from s[p] on,
\* left to right, none overlapping.
RECURSIVE AmountMatches(_, _)
AmountMatches(s, p) ==
    IF p > Len(s) THEN << >>
    ELSE IF AmountAt(s, p).stop = 0 THEN AmountMatches(s, p + 1)
    ELSE <<AmountAt(s, p)>> \o AmountMatches(s, AmountAt(s, p).stop)

\* amount_str.replace(',', '')
RECURSIVE WithoutCommas(_)
WithoutCommas(s) ==
    IF Len(s) = 0 THEN ""
    ELSE (IF At(s, 1) = "," THEN "" ELSE At(s, 1)) \o WithoutCommas(SubSeq(s, 2, Len(s)))

\* re.sub(r'[^\d.]', '', part)
RECURSIVE DigitsAndDots(_)
DigitsAndDots(s) ==
    IF Len(s) = 0 THEN ""
    ELSE (IF IsDigit(At(s, 1)) \/ At(s, 1) = "." THEN At(s, 1) ELSE "")
         \o DigitsAndDots(SubSeq(s, 2, Len(s)))

\* Number of characters c in s.
RECURSIVE Count(_, _)
Count(s, c) ==
    IF Len(s) = 0 THEN 0
    ELSE (IF At(s, 1) = c THEN 1 ELSE 0) + Count(SubSeq(s, 2, Len(s)), c)

\* float(s) raises ValueError, for a string of digits and dots: it needs a
\* digit, and takes one dot at most.
FloatRaises(s) == Count(s, ".") > 1 \/ Count(s, ".") = Len(s)

DigitValue(c) ==
    CASE c = "0" -> 0 [] c = "1" -> 1 [] c = "2" -> 2 [] c = "3" -> 3 [] c = "4" -> 4
      [] c = "5" -> 5 [] c = "6" -> 6 [] c = "7" -> 7 [] c = "8" -> 8 [] c = "9" -> 9

\* The integer a string of digits writes (0 for the empty string).
RECURSIVE IntOf(_)
IntOf(s) ==
    IF Len(s) = 0 THEN 0
    ELSE 10 * IntOf(SubSeq(s, 1, Len(s) - 1)) + DigitValue(At(s, Len(s)))

\* s without the zeros it ends with.
RECURSIVE WithoutTrailingZeros(_)
WithoutTrailingZeros(s) ==
    IF Len(s) > 0 /\ At(s, Len(s)) = "0" THEN WithoutTrailingZeros(SubSeq(s, 1, Len(s) - 1))
    ELSE s

RECURSIVE Pow10(_)
Pow10(k) == IF k <= 0 THEN 1 ELSE 10 * Pow10(k - 1)

\* Position of the first dot of s, Len(s) + 1 without one.
RECURSIVE DotAt(_, _)
DotAt(s, p) == IF p > Len(s) \/ At(s, p) = "." THEN p ELSE DotAt(s, p + 1)

\* float(s) for a string of digits with one dot at most: the decimal is
\* rounded once to the nearest float.
ParseFloat(s) ==
    LET dot == DotAt(s, 1)
        whole == SubSeq(s, 1, dot - 1)
        fraction == WithoutTrailingZeros(SubSeq(s, dot + 1, Len(s)))
    IN  FDiv([m |-> IntOf(whole \o fraction), e |-> 0],
             [m |-> Pow10(Len(fraction)), e |-> 0])

\* text.split('\n')
RECURSIVE SplitLines(_)
SplitLines(text) ==
    LET cut == CHOOSE p \in 1..(Len(text) + 1) :
                  /\ p = Len(text) + 1 \/ At(text, p) = "\n"
                  /\ \A q \in 1..(p - 1) : At(text, q) # "\n"
    IN  IF cut > Len(text) THEN <<text>>
        ELSE <<SubSeq(text, 1, cut - 1)>> \o SplitLines(SubSeq(text, cut + 1, Len(text)))

\* line.split(): the whitespace-separated parts, in order.
RECURSIVE Parts(_)
Parts(s) ==
    LET t == LStrip(s)
        n == WordLen(t)
    IN  IF Len(t) = 0 THEN << >>
        ELSE <<SubSeq(t, 1, n)>> \o Parts(SubSeq(t, n + 1, Len(t)))

\* ' '.join(parts[:n])
RECURSIVE JoinParts(_, _)
JoinParts(parts, n) ==
    IF n = 0 THEN ""
    ELSE IF n = 1 THEN parts[1]
    ELSE JoinParts(parts, n - 1) \o " " \o parts[n]

\* The first loop on one line (the text's line number n, counted from 1):
\* the item it appends, if any.
PatternItem(raw, n) ==
    LET line == Strip(raw)
        amounts == AmountMatches(line, 1)
        description == Strip(SubSeq(line, 1, amounts[1].start - 1))
        amount_str == WithoutCommas(amounts[Len(amounts)].group)
    IN  IF Len(line) = 0 \/ Len(amounts) = 0 THEN << >>
        ELSE IF FloatRaises(amount_str) THEN << >>
        ELSE IF FGt(ParseFloat(amount_str), FromInt(0)) /\ Len(description) > 2
             THEN <<LineItem(description, ParseFloat(amount_str),
                             categorize_charge(description), n)>>
        ELSE << >>

\* re.search(r'\d+\.\d{2}', line)
HasDecimalAmount(line) ==
    \E p \in 1..Len(line) :
        /\ IsDigit(At(line, p)) /\ At(line, p + 1) = "."
        /\ IsDigit(At(line, p + 2)) /\ IsDigit(At(line, p + 3))

\* The part the reversed scan stops at: the last one that keeps a dot once
\* everything but digits and dots is removed; 0 without one.
AmountPart(parts) ==
    LET hits == {k \in 1..Len(parts) : Contains(DigitsAndDots(parts[k]), ".")}
    IN  IF hits = {} THEN 0 ELSE CHOOSE k \in hits : \A j \in hits : j <= k

\* The second loop on one line: the item it appends, if any.
TableItem(line, n) ==
    LET parts == Parts(line)
        k == AmountPart(parts)
        amount_str == DigitsAndDots(parts[k])
        description == JoinParts(parts, Len(parts) - 1)
    IN  IF ~HasDecimalAmount(line) \/ Len(parts) < 2 \/ k = 0 THEN << >>
        ELSE IF FloatRaises(amount_str) THEN << >>
        ELSE <<LineItem(description, ParseFloat(amount_str),
                        categorize_charge(description), n)>>

\* The items of the first n lines, by the first loop.
RECURSIVE PatternItems(_, _)
PatternItems(lines, n) ==
    IF n = 0 THEN << >> ELSE PatternItems(lines, n - 1) \o PatternItem(lines[n], n)

\* The items of the first n lines, by the second loop.
RECURSIVE TableItems(_, _)
TableItems(lines, n) ==
    IF n = 0 THEN << >> ELSE TableItems(lines, n - 1) \o TableItem(lines[n], n)

\* extract_invoice_line_items_regex(text)
extract_invoice_line_items_regex(text) ==
    LET lines == SplitLines(text)
        line_items == PatternItems(lines, Len(lines))
    IN  IF Len(line_items) = 0 THEN TableItems(lines, Len(lines)) ELSE line_items

\* The AI path, for the line_items the model's answer holds: they are
\* numbered from 1 in the order of the answer.
NumberedFromOne(line_items) ==
    [i \in 1..Len(line_items) |->
        LineItem(line_items[i].description, line_items[i].amount,
                 line_items[i].category, i)]

\* text[:max_chars] + "\n[... text truncated ...]" for a text longer than
\* max_chars; the assignment is inside the try, so the fallback after a
\* failed AI call reads the truncated text as well.
max_chars == 12000
Truncated(text) ==
    IF Len(text) > max_chars
    THEN SubSeq(text, 1, max_chars) \o "\n[... text truncated ...]"
    ELSE text

\* Variant of Caught: the handler catches the failures of the API only.
CaughtApiOnly(error) == error = "api"

\* `except Exception` catches what the try block raises: the failure of the
\* API call or of json.loads ("api"), and the KeyError or TypeError of the
\* statements that follow ("key").
Caught(error) == error \in {"api", "key"}

\* extract_invoice_line_items(text, api_key); answer is the outcome of the AI
\* call: it raises, or it holds line_items.
extract_invoice_line_items(text, api_key, answer) ==
    IF api_key = "" THEN extract_invoice_line_items_regex(text)
    ELSE IF answer.raises THEN extract_invoice_line_items_regex(Truncated(text))
    ELSE NumberedFromOne(answer.line_items)

\* An exception leaves extract_invoice_line_items: one of the try block that
\* the handler does not catch (the regex extractor catches its own
\* ValueError and IndexError).
extract_invoice_line_items_raises(api_key, answer) ==
    api_key # "" /\ answer.raises /\ ~Caught("api")

\* ------------------------------------------------------- extract_lease_fields

\* A piece of a pattern: between least and most characters (most 0: any number)
\* that are in chars, or are not when negated; group is the capturing group it
\* is part of, 0 for none.
Piece(chars, negated, least, most, group) ==
    [chars |-> chars, negated |-> negated, least |-> least, most |-> most, group |-> group]

\* A literal word, character by character.
Literal(word, group) ==
    [i \in 1..Len(word) |-> Piece({At(word, i)}, FALSE, 1, 1, group)]

\* \s (of the ASCII characters)
Spaces == {" ", "\t", "\n", "\r"}

\* \s+ , [:\s]+ , [es]? and the like, the captures [^\.]+ , [^\.\n]+ and
\* [0-9,]+\.?\d*%?
Blank(group) == <<Piece(Spaces, FALSE, 1, 0, group)>>
Separator == <<Piece(Spaces \cup {":"}, FALSE, 1, 0, 0)>>
Maybe(chars, group) == <<Piece(chars, FALSE, 0, 1, group)>>
Sentence(group) == <<Piece({"."}, TRUE, 1, 0, group)>>
RestOfLine(group) == <<Piece({".", "\n"}, TRUE, 1, 0, group)>>
Digits == {"0", "1", "2", "3", "4", "5", "6", "7", "8", "9"}
Figure(group) ==
    <<Piece(Digits \cup {","}, FALSE, 1, 0, group), Piece({"."}, FALSE, 0, 1, group),
      Piece(Digits, FALSE, 0, 0, group), Piece({"%"}, FALSE, 0, 1, group)>>

\* Whether character c (the empty string past the end) fits the piece.
Fits(piece, c) == c # "" /\ ((c \in piece.chars) # piece.negated)

\* The longest run of fitting characters from s[p], within the piece's most.
RECURSIVE FitRun(_, _, _, _)
FitRun(piece, s, p, taken) ==
    IF (piece.most = 0 \/ taken < piece.most) /\ Fits(piece, At(s, p))
    THEN FitRun(piece, s, p + 1, taken + 1)
    ELSE taken

\* The pieces k.. matched at s[p] as the backtracking matcher does: each piece
\* takes the longest run the rest can follow. The result holds the position
\* where each piece starts and the position after the match; it is empty
\* when there is no match.
RECURSIVE MatchPieces(_, _, _, _)
RECURSIVE MatchTaking(_, _, _, _, _)
MatchPieces(pieces, k, s, p) ==
    IF k > Len(pieces) THEN <<p>>
    ELSE MatchTaking(pieces, k, s, p, FitRun(pieces[k], s, p, 0))

MatchTaking(pieces, k, s, p, n) ==
    IF n < pieces[k].least THEN << >>
    ELSE LET rest == MatchPieces(pieces, k + 1, s, p + n)
         IN  IF Len(rest) > 0 THEN <<p>> \o rest
             ELSE MatchTaking(pieces, k, s, p, n - 1)

\* match.group(g) of a match of pieces with the positions at.
GroupText(pieces, at, s, g) ==
    LET inside == {k \in 1..Len(pieces) : pieces[k].group = g}
        from == CHOOSE k \in inside : \A j \in inside : k <= j
        to == CHOOSE k \in inside : \A j \in inside : j <= k
    IN  SubSeq(s, at[from], at[to + 1] - 1)

\* A pattern is its alternatives in order; the first that matches at s[p]
\* is the match there: its groups 1 and 2 and the position after it
\* (stop = 0: no match at s[p]).
RECURSIVE MatchAt(_, _, _, _)
MatchAt(pattern, a, s, p) ==
    IF a > Len(pattern) THEN [stop |-> 0]
    ELSE LET at == MatchPieces(pattern[a], 1, s, p)
         IN  IF Len(at) = 0 THEN MatchAt(pattern, a + 1, s, p)
             ELSE [stop |-> at[Len(at)],
                   group1 |-> GroupText(pattern[a], at, s, 1),
                   group2 |-> IF \E k \in 1..Len(pattern[a]) : pattern[a][k].group = 2
                              THEN GroupText(pattern[a], at, s, 2) ELSE ""]

\* The first position from p on where the pattern matches, 0 without one.
NextMatch(pattern, s, p) ==
    LET hits == {q \in p..Len(s) : MatchAt(pattern, 1, s, q).stop # 0}
    IN  IF hits = {} THEN 0 ELSE CHOOSE q \in hits : \A r \in hits : q <= r

\* re.finditer(pattern, s): the matches from s[p] on, left to right.
RECURSIVE FindIter(_, _, _)
FindIter(pattern, s, p) ==
    LET q == NextMatch(pattern, s, p)
    IN  IF q = 0 THEN << >>
        ELSE <<MatchAt(pattern, 1, s, q)>> \o FindIter(pattern, s, MatchAt(pattern, 1, s, q).stop)

\* The matches of several patterns, pattern after pattern.
RECURSIVE FindEach(_, _, _)
FindEach(patterns, n, s) ==
    IF n = 0 THEN << >>
    ELSE FindEach(patterns, n - 1, s) \o FindIter(patterns[n], s, 1)

cam_patterns ==
    << <<Literal("cam", 0) \o Separator \o Sentence(1)>>,
       <<Literal("common", 0) \o Blank(0) \o Literal("area", 0) \o Blank(0)
           \o Literal("maintenance", 0) \o Separator \o Sentence(1)>>,
       <<Literal("common", 0) \o Blank(0) \o Literal("area", 0) \o Blank(0)
           \o Literal("charges", 0) \o Separator \o Sentence(1)>> >>

tax_patterns ==
    << <<Literal("property", 1) \o Blank(1) \o Literal("tax", 1) \o Maybe({"e", "s"}, 1)
           \o Separator \o Figure(2),
         Literal("real", 1) \o Blank(1) \o Literal("estate", 1) \o Blank(1)
           \o Literal("tax", 1) \o Maybe({"e", "s"}, 1) \o Separator \o Figure(2)>>,
       <<Literal("tax", 0) \o Maybe({"e", "s"}, 0) \o Blank(0) \o Figure(1)>> >>

utility_patterns ==
    << <<Literal("electric", 1) \o Maybe({"i", "t", "y"}, 1) \o Separator \o RestOfLine(2),
         Literal("water", 1) \o Separator \o RestOfLine(2),
         Literal("gas", 1) \o Separator \o RestOfLine(2),
         Literal("sewer", 1) \o Separator \o RestOfLine(2),
         Literal("trash", 1) \o Separator \o RestOfLine(2)>> >>

escalation_patterns ==
    << <<Literal("escalation", 0) \o Blank(0) \o Literal("cap", 0) \o Separator \o Figure(1)>>,
       <<Literal("annual", 0) \o Blank(0) \o Literal("increase", 0) \o Blank(0)
           \o Literal("cap", 0) \o Separator \o Figure(1)>>,
       <<Literal("maximum", 0) \o Blank(0) \o Literal("increase", 0) \o Separator
           \o Figure(1)>> >>

allowed_fee_patterns ==
    << <<Literal("allowed", 0) \o Blank(0) \o Literal("fee", 0) \o Maybe({"s"}, 0)
           \o Separator \o RestOfLine(1)>>,
       <<Literal("permitted", 0) \o Blank(0) \o Literal("charge", 0) \o Maybe({"s"}, 0)
           \o Separator \o RestOfLine(1)>> >>

disallowed_fee_patterns ==
    << <<Literal("disallowed", 0) \o Blank(0) \o Literal("fee", 0) \o Maybe({"s"}, 0)
           \o Separator \o RestOfLine(1)>>,
       <<Literal("prohibited", 0) \o Blank(0) \o Literal("charge", 0) \o Maybe({"s"}, 0)
           \o Separator \o RestOfLine(1)>>,
       <<Literal("not", 0) \o Blank(0) \o Literal("allowed", 0) \o Separator
           \o RestOfLine(1)>> >>

\* lease_data['cam_rules'] after the matches: cam_text[:200] of those longer
\* than 10 characters, as plain strings.
RECURSIVE CamRules(_, _)
CamRules(matches, n) ==
    IF n = 0 THEN << >>
    ELSE LET cam_text == Strip(matches[n].group1)
         IN  CamRules(matches, n - 1)
             \o (IF Len(cam_text) > 10 THEN <<StrEntry(Prefix(cam_text, 200))>> ELSE << >>)

\* [f.strip() for f in s.split(',')], as plain strings.
RECURSIVE SplitFees(_)
SplitFees(s) ==
    LET cut == CHOOSE p \in 1..(Len(s) + 1) :
                  /\ p = Len(s) + 1 \/ At(s, p) = ","
                  /\ \A q \in 1..(p - 1) : At(s, q) # ","
    IN  IF cut > Len(s) THEN <<StrEntry(Strip(s))>>
        ELSE <<StrEntry(Strip(SubSeq(s, 1, cut - 1)))>> \o SplitFees(SubSeq(s, cut + 1, Len(s)))

\* A fee list after the matches: every match extends it.
RECURSIVE FeeList(_, _)
FeeList(matches, n) ==
    IF n = 0 THEN << >>
    ELSE FeeList(matches, n - 1) \o SplitFees(Strip(matches[n].group1))

\* The key and the value a match stores in the dicts taxes and utilities.
TaxKey(match) == Strip(match.group1)
TaxValue(match) == IF match.group2 # "" THEN match.group2 ELSE match.group1
UtilityKey(match) == Strip(match.group1)
UtilityValue(match) == Prefix(Strip(match.group2), 100)

\* A dict is filled match after match: the last match of a key gives its value.
LastOf(matches, keys, key) ==
    CHOOSE n \in 1..Len(matches) :
        /\ keys[n] = key
        /\ \A j \in 1..Len(matches) : keys[j] = key => j <= n

TaxDict(matches) ==
    LET keys == [n \in 1..Len(matches) |-> TaxKey(matches[n])]
    IN  [key \in {keys[n] : n \in 1..Len(matches)} |->
            TaxValue(matches[LastOf(matches, keys, key)])]

UtilityDict(matches) ==
    LET keys == [n \in 1..Len(matches) |-> UtilityKey(matches[n])]
    IN  [key \in {keys[n] : n \in 1..Len(matches)} |->
            UtilityValue(matches[LastOf(matches, keys, key)])]

EscalationDict(matches) ==
    IF Len(matches) = 0 THEN << >>
    ELSE [key \in {"annual"} |-> Strip(matches[Len(matches)].group1)]

\* extract_lease_fields_regex(text)
extract_lease_fields_regex(text) ==
    LET text_lower == Lower(text)
        cam == FindEach(cam_patterns, Len(cam_patterns), text_lower)
        allowed == FindEach(allowed_fee_patterns, Len(allowed_fee_patterns), text_lower)
        disallowed == FindEach(disallowed_fee_patterns, Len(disallowed_fee_patterns),
                               text_lower)
    IN  [cam_rules |-> CamRules(cam, Len(cam)),
         taxes |-> TaxDict(FindEach(tax_patterns, Len(tax_patterns), text_lower)),
         utilities |-> UtilityDict(FindEach(utility_patterns, Len(utility_patterns),
                                            text_lower)),
         escalation_caps |-> EscalationDict(FindEach(escalation_patterns,
                                                     Len(escalation_patterns), text_lower)),
         allowed_fees |-> FeeList(allowed, Len(allowed)),
         disallowed_fees |-> FeeList(disallowed, Len(disallowed)),
         raw_text |-> text]

\* ------------------------------------------------------ smooth_extracted_text

\* [A-Z], [a-zA-Z], \w and [.,;:!?] on one character.
IsUpper(c) == LowerChar(c) # c
IsLetter(c) ==
    IsUpper(c) \/ c \in {"a", "b", "c", "d", "e", "f", "g", "h", "i", "j", "k", "l", "m",
                         "n", "o", "p", "q", "r", "s", "t", "u", "v", "w", "x", "y", "z"}
IsWordChar(c) == IsLetter(c) \/ IsDigit(c) \/ c = "_"
IsPunct(c) == c \in {".", ",", ";", ":", "!", "?"}

\* Length of the run of \s that starts at s[p].
RECURSIVE SpaceRun(_, _)
SpaceRun(s, p) == IF IsSpace(At(s, p)) THEN 1 + SpaceRun(s, p + 1) ELSE 0

\* Length of the run of \w that starts at s[p].
RECURSIVE WordRun(_, _)
WordRun(s, p) == IF IsWordChar(At(s, p)) THEN 1 + WordRun(s, p + 1) ELSE 0

\* Length of the run of blanks that starts at s[p].
RECURSIVE BlankRun(_, _)
BlankRun(s, p) == IF At(s, p) = " " THEN 1 + BlankRun(s, p + 1) ELSE 0

\* re.sub(r'\s+', ' ', text), from s[p] on.
RECURSIVE OneSpace(_, _)
OneSpace(s, p) ==
    IF p > Len(s) THEN ""
    ELSE IF IsSpace(At(s, p)) THEN " " \o OneSpace(s, p + SpaceRun(s, p))
    ELSE At(s, p) \o OneSpace(s, p + 1)

\* re.sub(r'(\w+)-\s+(\w+)', r'\1\2', text), from s[p] on; the search that is
\* under way started at s[start], so the first group lies at or after it.
RECURSIVE JoinBroken(_, _, _)
JoinBroken(s, p, start) ==
    LET gap == SpaceRun(s, p + 1)
        word == WordRun(s, p + 1 + gap)
    IN  IF p > Len(s) THEN ""
        ELSE IF /\ At(s, p) = "-"
                /\ p - 1 >= start /\ IsWordChar(At(s, p - 1))
                /\ gap >= 1 /\ word >= 1
        THEN SubSeq(s, p + 1 + gap, p + gap + word)
                \o JoinBroken(s, p + 1 + gap + word, p + 1 + gap + word)
        ELSE At(s, p) \o JoinBroken(s, p + 1, start)

\* re.sub(r'\s+([.,;:!?])', r'\1', text) and re.sub(r'\s+"', '"', text): the
\* whitespace before a character of the class is dropped. quote tells which.
RECURSIVE NoSpaceBefore(_, _, _)
NoSpaceBefore(s, p, quote) ==
    LET gap == SpaceRun(s, p)
        c == At(s, p + gap)
    IN  IF p > Len(s) THEN ""
        ELSE IF gap >= 1 /\ (IF quote THEN c = "\"" ELSE IsPunct(c))
        THEN c \o NoSpaceBefore(s, p + gap + 1, quote)
        ELSE At(s, p) \o NoSpaceBefore(s, p + 1, quote)

\* re.sub(r'([.,;:!?])\s*([A-Z])', r'\1 \2', text)
RECURSIVE SpaceBeforeCapital(_, _)
SpaceBeforeCapital(s, p) ==
    LET gap == SpaceRun(s, p + 1)
        c == At(s, p + 1 + gap)
    IN  IF p > Len(s) THEN ""
        ELSE IF IsPunct(At(s, p)) /\ IsUpper(c)
        THEN At(s, p) \o " " \o c \o SpaceBeforeCapital(s, p + 2 + gap)
        ELSE At(s, p) \o SpaceBeforeCapital(s, p + 1)

\* re.sub(r'"\s+', '" ', text)
RECURSIVE OneSpaceAfterQuote(_, _)
OneSpaceAfterQuote(s, p) ==
    LET gap == SpaceRun(s, p + 1)
    IN  IF p > Len(s) THEN ""
        ELSE IF At(s, p) = "\"" /\ gap >= 1
        THEN "\" " \o OneSpaceAfterQuote(s, p + 1 + gap)
        ELSE At(s, p) \o OneSpaceAfterQuote(s, p + 1)

\* re.sub(r'^\s*[a-zA-Z]\s+', '', text, flags=re.MULTILINE): the text holds
\* no line break any more, so ^ is the start of the text.
NoOrphan(s) ==
    LET lead == SpaceRun(s, 1)
        gap == SpaceRun(s, lead + 2)
    IN  IF IsLetter(At(s, lead + 1)) /\ gap >= 1
        THEN SubSeq(s, lead + 2 + gap, Len(s))
        ELSE s

\* re.sub(r' {2,}', ' ', text)
RECURSIVE OneBlank(_, _)
OneBlank(s, p) ==
    IF p > Len(s) THEN ""
    ELSE IF BlankRun(s, p) >= 2 THEN " " \o OneBlank(s, p + BlankRun(s, p))
    ELSE At(s, p) \o OneBlank(s, p + 1)

\* smooth_extracted_text(text)
smooth_extracted_text(text) ==
    LET spaced == OneSpace(text, 1)
        joined == JoinBroken(spaced, 1, 1)
        tight == NoSpaceBefore(joined, 1, FALSE)
        capital == SpaceBeforeCapital(tight, 1)
        quoted == OneSpaceAfterQuote(NoSpaceBefore(capital, 1, TRUE), 1)
    IN  IF text = "" THEN text
        ELSE Strip(OneBlank(NoOrphan(quoted), 1))

\* ------------------------------------------- extract_lease_fields: AI route

\* An item of a typed array (taxes, utilities, escalation_caps) of the answer.
TypedItem(type, wording, reference) ==
    [type |-> type, exact_wording |-> wording, clause_reference |-> reference]

\* Variant of BlankReference: only the empty reference counts as missing.
EmptyReference(item) == Get(item, "clause_reference", "") = ""

\* not item.get('clause_reference') or item.get('clause_reference', '').strip() == ''
BlankReference(item) ==
    \/ Get(item, "clause_reference", "") = ""
    \/ Strip(Get(item, "clause_reference", "")) = ""

\* smooth_lease_item(item): the wording smoothed, a missing or blank
\* reference replaced by the placeholder; what is no dict is left as it is.
smooth_lease_item(item) ==
    LET worded ==
            IF "exact_wording" \in DOMAIN item
            THEN [item EXCEPT !.exact_wording = smooth_extracted_text(@)]
            ELSE item
    IN  IF ~IsDict(item) THEN item
        ELSE IF BlankReference(worded)
        THEN [k \in DOMAIN worded \cup {"clause_reference"} |->
                 IF k = "clause_reference" THEN Sentinel ELSE worded[k]]
        ELSE worded

\* [smooth_lease_item(item) for item in items]
SmoothItems(items) == [i \in 1..Len(items) |-> smooth_lease_item(items[i])]

\* The dict built by `for item in items: d[item['type']] = item['exact_wording']`:
\* the last item of a type gives the wording.
TypeDict(items) ==
    [type \in {items[i].type : i \in 1..Len(items)} |->
        items[CHOOSE i \in 1..Len(items) :
                 /\ items[i].type = type
                 /\ \A j \in (i + 1)..Len(items) : items[j].type # type].exact_wording]

\* item['type'] or item['exact_wording'] raises: the item is no dict, or
\* lacks the key.
TypedItemRaises(item) ==
    ~IsDict(item) \/ ~({"type", "exact_wording"} \subseteq DOMAIN item)

\* isinstance(lease_data.get(key), list)
IsList(json, key) == key \in DOMAIN json /\ 0 \notin DOMAIN json[key]

TypedSections == {"taxes", "utilities", "escalation_caps"}
DetailsOf(key) == key \o "_details"

\* The statements after json.loads raise.
AiRouteRaises(json) ==
    \E key \in TypedSections :
        /\ IsList(json, key)
        /\ \E i \in 1..Len(json[key]) : TypedItemRaises(json[key][i])

\* The lease the AI route returns for the parsed answer json.
AiRouteLease(json, text) ==
    LET typed == {key \in TypedSections : IsList(json, key)}
        plain == {key \in {"cam_rules", "allowed_fees", "disallowed_fees"} :
                     IsList(json, key)}
    IN  [key \in DOMAIN json \cup {"raw_text"} \cup {DetailsOf(t) : t \in typed} |->
            IF key = "raw_text" THEN text
            ELSE IF key \in typed THEN TypeDict(SmoothItems(json[key]))
            ELSE IF key \in plain THEN SmoothItems(json[key])
            ELSE IF \E t \in typed : key = DetailsOf(t)
            THEN SmoothItems(json[CHOOSE t \in typed : key = DetailsOf(t)])
            ELSE json[key]]

\* extract_lease_fields(text, api_key); answer is the outcome of the AI call:
\* it raises (json.loads included), or it is the parsed answer.
extract_lease_fields(text, api_key, answer) ==
    IF api_key = "" THEN extract_lease_fields_regex(text)
    ELSE IF answer.raises THEN extract_lease_fields_regex(Truncated(text))
    ELSE IF AiRouteRaises(answer.json) THEN extract_lease_fields_regex(Truncated(text))
    ELSE AiRouteLease(answer.json, Truncated(text))

\* An exception leaves extract_lease_fields: one of the try block that the
\* handler does not catch (the regex extractor raises nothing).
extract_lease_fields_raises(api_key, answer) ==
    /\ api_key # ""
    /\ \/ answer.raises /\ ~Caught("api")
       \/ ~answer.raises /\ AiRouteRaises(answer.json) /\ ~Caught("key")

\* ----------------------------------------------------- compare_lease_invoice

VARIABLES
    pc,                 \* "idle", "loop" (in the for loop) or "done" (returned)
    lease_data,         \* the argument lease_data
    invoice_data,       \* the argument invoice_data
    total_invoice,      \* the local total_invoice
    seen_descriptions,  \* the keys of the local dict seen_descriptions
    idx,                \* number of loop iterations finished
    comparison,         \* the local dict comparison, returned at the end
    call,               \* the last direct application of one of the helpers
    first,              \* what an earlier run on the same arguments returned
    session_state,      \* st.session_state: lease_data, invoice_data, comparison_results
    page                \* the script run: where it is, the button that started it,
                        \* the report it displayed and the one it passed to the PDF

vars == <<pc, lease_data, invoice_data, total_invoice, seen_descriptions, idx,
          comparison, call, first, session_state, page>>

NoCall == [fn |-> "none"]

\* st.session_state as the script initialises it.
NewSession == [lease_data |-> None, invoice_data |-> NoneList, comparison_results |-> None]

\* The page before any script run has drawn a report.
BlankPage == [at |-> "wait", button |-> "none", shown |-> None, pdf |-> None]

Init ==
    /\ pc = "idle"
    /\ lease_data = None
    /\ invoice_data = NoneList
    /\ total_invoice = FromInt(0)
    /\ seen_descriptions = {}
    /\ idx = 0
    /\ comparison = None
    /\ call = NoCall
    /\ first = None
    /\ session_state = NewSession
    /\ page = BlankPage

\* sum(item['amount'] for item in invoice_data), over the first n items.
RECURSIVE SumAmounts(_, _)
SumAmounts(items, n) ==
    IF n = 0 THEN FromInt(0)
    ELSE FAdd(SumAmounts(items, n - 1), items[n].amount)

\* Variant of EmptyComparison: the summary already carries its six fields, at zero.
ZeroFilledComparison ==
    [mismatches |-> << >>, overcharges |-> << >>, total_overcharge |-> FromInt(0),
     allowed_charges |-> << >>, disallowed_charges |-> << >>,
     summary |-> [total_invoice_amount |-> FromInt(0), total_overcharge |-> FromInt(0),
                  total_allowed |-> FromInt(0), number_of_items |-> 0,
                  number_of_mismatches |-> 0, overcharge_percentage |-> FromInt(0)]]

\* The dict comparison as first built.
EmptyComparison ==
    [mismatches |-> << >>, overcharges |-> << >>, total_overcharge |-> FromInt(0),
     allowed_charges |-> << >>, disallowed_charges |-> << >>, summary |-> << >>]

\* Variant of Normalized: lowercased, not trimmed.
NormalizedUntrimmed(description) == Lower(description)

\* description.lower().strip()
Normalized(description) == Strip(Lower(description))

\* Variant of NoDescriptions: the descriptions the previous call left.
LeftoverDescriptions == seen_descriptions

\* The entry from which the seen descriptions start.
NoDescriptions == {}

\* The function body up to the for loop: the empty report, the early return,
\* the total, the empty seen_descriptions.
Begin(lease, invoice) ==
    /\ lease_data' = lease
    /\ invoice_data' = invoice
    /\ comparison' = EmptyComparison
    /\ seen_descriptions' = NoDescriptions
    /\ idx' = 0
    /\ IF FalsyDict(lease) \/ FalsyList(invoice)
       THEN /\ pc' = "done"
            /\ total_invoice' = FromInt(0)
       ELSE /\ pc' = "loop"
            /\ total_invoice' = SumAmounts(invoice, Len(invoice))
    /\ UNCHANGED <<call, session_state>>

\* A call of compare_lease_invoice(lease, invoice).
Enter(lease, invoice) ==
    /\ pc = "idle"
    /\ Begin(lease, invoice)
    /\ UNCHANGED first
    /\ UNCHANGED page

\* Variant of DuplicateMismatch: the entry carries a clause_reference, as the
\* entry of a rule violation does.
DuplicateMismatchWithClause(item) ==
    [item |-> item, reason |-> "Duplicate Charge",
     explanation |-> "Duplicate charge detected. This item appears multiple times in the invoice.",
     clause_reference |-> "",
     suggested_action |-> "Review with landlord - remove duplicate"]

\* The entries a duplicate adds.
DuplicateMismatch(item) ==
    [item |-> item, reason |-> "Duplicate Charge",
     explanation |-> "Duplicate charge detected. This item appears multiple times in the invoice.",
     suggested_action |-> "Review with landlord - remove duplicate"]

Overcharge(item, reason) ==
    [description |-> item.description, amount |-> item.amount, reason |-> reason]

\* The entries a rule violation adds.
ViolationMismatch(item, verdict) ==
    [item |-> item, reason |-> verdict.reason, explanation |-> verdict.explanation,
     clause_reference |-> verdict.clause_reference,
     suggested_action |-> "Review with landlord - request removal or justification"]

\* The item the next iteration handles.
NextItem == invoice_data[idx + 1]

\* Variant of Duplicate: the duplicate is filed under disallowed_charges too.
DuplicateAlsoDisallowed ==
    /\ pc = "loop"
    /\ idx < Len(invoice_data)
    /\ Normalized(NextItem.description) \in seen_descriptions
    /\ comparison' =
         [comparison EXCEPT
            !.mismatches = Append(@, DuplicateMismatch(NextItem)),
            !.overcharges = Append(@, Overcharge(NextItem, "Duplicate Charge")),
            !.total_overcharge = FAdd(@, NextItem.amount),
            !.disallowed_charges =
               Append(@, [item |-> NextItem, reason |-> "Duplicate Charge"])]
    /\ idx' = idx + 1
    /\ UNCHANGED <<pc, lease_data, invoice_data, total_invoice, seen_descriptions,
                   call, first, session_state, page>>

\* Variant of Duplicate: the duplicate's amount is not added to total_overcharge.
DuplicateNotCounted ==
    /\ pc = "loop"
    /\ idx < Len(invoice_data)
    /\ Normalized(NextItem.description) \in seen_descriptions
    /\ comparison' =
         [comparison EXCEPT
            !.mismatches = Append(@, DuplicateMismatch(NextItem)),
            !.overcharges = Append(@, Overcharge(NextItem, "Duplicate Charge"))]
    /\ idx' = idx + 1
    /\ UNCHANGED <<pc, lease_data, invoice_data, total_invoice, seen_descriptions,
                   call, first, session_state, page>>

\* Variant of Duplicate: the duplicate is recorded in mismatches, not in overcharges.
DuplicateUnlisted ==
    /\ pc = "loop"
    /\ idx < Len(invoice_data)
    /\ Normalized(NextItem.description) \in seen_descriptions
    /\ comparison' =
         [comparison EXCEPT
            !.mismatches = Append(@, DuplicateMismatch(NextItem)),
            !.total_overcharge = FAdd(@, NextItem.amount)]
    /\ idx' = idx + 1
    /\ UNCHANGED <<pc, lease_data, invoice_data, total_invoice, seen_descriptions,
                   call, first, session_state, page>>

\* An iteration on a description seen before.
Duplicate ==
    /\ pc = "loop"
    /\ idx < Len(invoice_data)
    /\ Normalized(NextItem.description) \in seen_descriptions
    /\ comparison' =
         [comparison EXCEPT
            !.mismatches = Append(@, DuplicateMismatch(NextItem)),
            !.overcharges = Append(@, Overcharge(NextItem, "Duplicate Charge")),
            !.total_overcharge = FAdd(@, NextItem.amount)]
    /\ idx' = idx + 1
    /\ UNCHANGED <<pc, lease_data, invoice_data, total_invoice, seen_descriptions,
                   call, first, session_state, page>>

\* Variant of Check: the normalized description is written back to the item.
CheckNormalizing ==
    /\ pc = "loop"
    /\ idx < Len(invoice_data)
    /\ Normalized(NextItem.description) \notin seen_descriptions
    /\ seen_descriptions' = seen_descriptions \cup {Normalized(NextItem.description)}
    /\ invoice_data' = [invoice_data EXCEPT ![idx + 1].description = Normalized(@)]
    /\ LET verdict == check_violation(NextItem.description, NextItem.amount,
                                      NextItem.category, lease_data, total_invoice)
       IN  IF verdict.is_violation
           THEN comparison' =
                  [comparison EXCEPT
                     !.mismatches = Append(@, ViolationMismatch(NextItem, verdict)),
                     !.overcharges = Append(@, Overcharge(NextItem, verdict.reason)),
                     !.total_overcharge = FAdd(@, NextItem.amount),
                     !.disallowed_charges =
                        Append(@, [item |-> NextItem, reason |-> verdict.reason])]
           ELSE comparison' =
                  [comparison EXCEPT !.allowed_charges = Append(@, NextItem)]
    /\ idx' = idx + 1
    /\ UNCHANGED <<pc, lease_data, total_invoice, call, first, session_state, page>>

\* An iteration on a new description: check_violation decides.
Check ==
    /\ pc = "loop"
    /\ idx < Len(invoice_data)
    /\ Normalized(NextItem.description) \notin seen_descriptions
    /\ seen_descriptions' = seen_descriptions \cup {Normalized(NextItem.description)}
    /\ LET verdict == check_violation(NextItem.description, NextItem.amount,
                                      NextItem.category, lease_data, total_invoice)
       IN  IF verdict.is_violation
           THEN comparison' =
                  [comparison EXCEPT
                     !.mismatches = Append(@, ViolationMismatch(NextItem, verdict)),
                     !.overcharges = Append(@, Overcharge(NextItem, verdict.reason)),
                     !.total_overcharge = FAdd(@, NextItem.amount),
                     !.disallowed_charges =
                        Append(@, [item |-> NextItem, reason |-> verdict.reason])]
           ELSE comparison' =
                  [comparison EXCEPT !.allowed_charges = Append(@, NextItem)]
    /\ idx' = idx + 1
    /\ UNCHANGED <<pc, lease_data, invoice_data, total_invoice, call, first, session_state, page>>

\* Variant of Summary: total_allowed is taken as overcharge less total.
SummarySwapped(total, report, items) ==
    [total_invoice_amount |-> total,
     total_overcharge |-> report.total_overcharge,
     total_allowed |-> FSub(report.total_overcharge, total),
     number_of_items |-> Len(items),
     number_of_mismatches |-> Len(report.mismatches),
     overcharge_percentage |->
        IF FGt(total, FromInt(0))
        THEN FMul(FDiv(report.total_overcharge, total), FromInt(100))
        ELSE FromInt(0)]

\* Variant of Summary: the mismatches counted are the rule violations alone.
SummaryOfViolations(total, report, items) ==
    [total_invoice_amount |-> total,
     total_overcharge |-> report.total_overcharge,
     total_allowed |-> FSub(total, report.total_overcharge),
     number_of_items |-> Len(items),
     number_of_mismatches |-> Len(report.disallowed_charges),
     overcharge_percentage |->
        IF FGt(total, FromInt(0))
        THEN FMul(FDiv(report.total_overcharge, total), FromInt(100))
        ELSE FromInt(0)]

\* Variant of Summary: total_allowed is the total less the disallowed charges,
\* the duplicates left out.
SummaryLessDisallowed(total, report, items) ==
    [total_invoice_amount |-> total,
     total_overcharge |-> report.total_overcharge,
     total_allowed |->
        FSub(total,
             SumAmounts([d \in 1..Len(report.disallowed_charges) |->
                            report.disallowed_charges[d].item],
                        Len(report.disallowed_charges))),
     number_of_items |-> Len(items),
     number_of_mismatches |-> Len(report.mismatches),
     overcharge_percentage |->
        IF FGt(total, FromInt(0))
        THEN FMul(FDiv(report.total_overcharge, total), FromInt(100))
        ELSE FromInt(0)]

\* The summary statistics.
Summary(total, report, items) ==
    [total_invoice_amount |-> total,
     total_overcharge |-> report.total_overcharge,
     total_allowed |-> FSub(total, report.total_overcharge),
     number_of_items |-> Len(items),
     number_of_mismatches |-> Len(report.mismatches),
     overcharge_percentage |->
        IF FGt(total, FromInt(0))
        THEN FMul(FDiv(report.total_overcharge, total), FromInt(100))
        ELSE FromInt(0)]

\* The end of the loop: the summary, and the return.
Summarize ==
    /\ pc = "loop"
    /\ idx = Len(invoice_data)
    /\ comparison' = [comparison EXCEPT !.summary = Summary(total_invoice, comparison, invoice_data)]
    /\ pc' = "done"
    /\ UNCHANGED <<lease_data, invoice_data, total_invoice, seen_descriptions, idx,
                   call, first, session_state, page>>

\* The caller takes the report; the next call starts afresh.
Return ==
    /\ pc = "done"
    /\ pc' = "idle"
    /\ lease_data' = None
    /\ invoice_data' = NoneList
    /\ total_invoice' = FromInt(0)
    /\ seen_descriptions' = {}
    /\ idx' = 0
    /\ comparison' = None
    /\ first' = None
    /\ UNCHANGED <<call, session_state, page>>

Next ==
    \/ /\ pc = "idle"
       /\ \E k \in LeaseArgs, picks \in InvoicePicks : Enter(LeaseArg(k), MakeInvoice(picks))
    \/ /\ pc = "idle"
       /\ \E k \in LeaseArgs : Enter(LeaseArg(k), NoneList)
    \/ Duplicate
    \/ Check
    \/ Summarize
    \/ Return

Spec == Init /\ [][Next]_vars

\* The report and the seen descriptions after the first n iterations of the loop.
RECURSIVE LoopAfter(_, _, _, _)
LoopAfter(lease, invoice, total, n) ==
    IF n = 0 THEN [report |-> EmptyComparison, seen |-> NoDescriptions]
    ELSE LET before == LoopAfter(lease, invoice, total, n - 1)
             item == invoice[n]
             verdict == check_violation(item.description, item.amount, item.category,
                                        lease, total)
         IN  IF Normalized(item.description) \in before.seen
             THEN [report |->
                     [before.report EXCEPT
                        !.mismatches = Append(@, DuplicateMismatch(item)),
                        !.overcharges = Append(@, Overcharge(item, "Duplicate Charge")),
                        !.total_overcharge = FAdd(@, item.amount)],
                   seen |-> before.seen]
             ELSE [report |->
                     IF verdict.is_violation
                     THEN [before.report EXCEPT
                             !.mismatches = Append(@, ViolationMismatch(item, verdict)),
                             !.overcharges = Append(@, Overcharge(item, verdict.reason)),
                             !.total_overcharge = FAdd(@, item.amount),
                             !.disallowed_charges =
                                Append(@, [item |-> item, reason |-> verdict.reason])]
                     ELSE [before.report EXCEPT !.allowed_charges = Append(@, item)],
                   seen |-> before.seen \cup {Normalized(item.description)}]

\* What compare_lease_invoice(lease, invoice) returns: the steps above, as one value.
compare_lease_invoice(lease, invoice) ==
    IF FalsyDict(lease) \/ FalsyList(invoice) THEN EmptyComparison
    ELSE LET total == SumAmounts(invoice, Len(invoice))
             report == LoopAfter(lease, invoice, total, Len(invoice)).report
         IN  [report EXCEPT !.summary = Summary(total, report, invoice)]

\* ------------------------------------------------------------- what raises

\* Variant of EntryGuard: no test before the dict methods.
Unguarded(entry) == TRUE

\* isinstance(entry, dict), the test the functions make on an entry of a
\* lease collection before they call a dict method on it.
EntryGuard(entry) == IsDict(entry)

\* entry.get(...) raises AttributeError on a str.
GetRaises(entry) == ~IsDict(entry)

\* `for entry in value` raises TypeError on None.
IterRaises(value) == 0 \in DOMAIN value

\* item['description'], item['amount'], item['category']: KeyError on a
\* missing key.
ItemRaises(item) == ~({"description", "amount", "category"} \subseteq DOMAIN item)

\* amount / total_invoice raises ZeroDivisionError on a zero total; both
\* divisions stand under `total_invoice > 0`.
DivisionRaises(total) == FGt(total, FromInt(0)) /\ total = FromInt(0)

\* A loop over a section calls a dict method on an entry that is none: the
\* entry passed the loop's test.
ReadRaises(section) ==
    ~IterRaises(section) /\ \E i \in 1..Len(section) : EntryGuard(section[i]) /\ GetRaises(section[i])

\* find_relevant_clause raises only in one of its loops, over the six
\* collections, each read with .get(key, []).
find_relevant_clause_raises(lease) ==
    \E key \in {"cam_rules", "disallowed_fees", "allowed_fees", "utilities_details",
                "taxes_details", "escalation_caps_details"} :
        ReadRaises(Get(lease, key, << >>))

\* check_violation raises only in find_relevant_clause, in the division of
\* rule 4, or in the loops of rules 4 and 5 over disallowed_fees, the second
\* of which iterates without a test of the type.
check_violation_raises(lease, total) ==
    \/ find_relevant_clause_raises(lease)
    \/ DivisionRaises(total)
    \/ IterRaises(Get(lease, "disallowed_fees", << >>))
    \/ ReadRaises(Get(lease, "disallowed_fees", << >>))

\* compare_lease_invoice raises only past the early return: on an item, in
\* check_violation, or in the division of the summary.
compare_lease_invoice_raises(lease, invoice) ==
    /\ ~(FalsyDict(lease) \/ FalsyList(invoice))
    /\ \/ \E i \in 1..Len(invoice) : ItemRaises(invoice[i])
       \/ check_violation_raises(lease, SumAmounts(invoice, Len(invoice)))
       \/ DivisionRaises(SumAmounts(invoice, Len(invoice)))

\* ------------------------------------------------------------ repeated runs

\* Longest invoice of a run that is repeated.
RepeatItems == 2

\* The arguments and the report of the run that just returned.
FinishedRun == [lease |-> lease_data, invoice |-> invoice_data, report |-> comparison]

\* The same call again, right after it returned; the locals of the finished
\* call are whatever it left.
Rerun ==
    /\ pc = "done"
    /\ first = None
    /\ first' = FinishedRun
    /\ Begin(lease_data, invoice_data)
    /\ UNCHANGED page

\* A call on another invoice (one charge, same lease) after the first run.
Detour(pick) ==
    /\ pc = "done"
    /\ first = None
    /\ first' = FinishedRun
    /\ Begin(lease_data, MakeInvoice(<<pick>>))
    /\ UNCHANGED page

\* The first call again, after the call in between returned.
Resume ==
    /\ pc = "done"
    /\ first # None
    /\ <<lease_data, invoice_data>> # <<first.lease, first.invoice>>
    /\ Begin(first.lease, first.invoice)
    /\ UNCHANGED first
    /\ UNCHANGED page

NextRepeat ==
    \/ /\ pc = "idle"
       /\ \E k \in LeaseArgs, picks \in InvoicePicks :
             /\ Len(picks) <= RepeatItems
             /\ Enter(LeaseArg(k), MakeInvoice(picks))
    \/ Duplicate
    \/ Check
    \/ Summarize
    \/ Return
    \/ Rerun
    \/ \E pick \in 1..Len(ItemPool) : Detour(pick)
    \/ Resume

\* Calls of compare_lease_invoice that follow each other without the locals
\* being cleared in between.
SpecRepeat == Init /\ [][NextRepeat]_vars

\* --------------------------------------------- direct calls of the helpers

\* The descriptions the helpers are applied to.
DescriptionPool ==
    << "Utility Admin Fee - March",
       "Utility Admin Fee for Roof Upgrade",
       "Attorney Fees",
       "Attorney Fees - Tenant Eviction",
       "Legal Fee for Roof Litigation",
       "Roof Replacement",
       "Property Management Fee",
       "Mgmt Fee and Late Charge",
       "Late Charge",
       "Capital Reserve",
       "Base Rent",
       "Real Estate Tax on Common Area",
       "Water and Sewer",
       "Liability Insurance",
       "" >>

\* The amounts and invoice totals check_violation is applied to.
AmountPool == <<FromInt(0), FromInt(50), FromInt(60), FromInt(255)>>
TotalPool == <<FromInt(0), FromInt(1000), FromInt(1004), FromInt(-60)>>

\* The search terms find_relevant_clause is applied to: those check_violation
\* passes, and others.
SearchTermPool ==
    << "utility", "disallowed", "legal", "capital", "management", "cam",
       "Common Area", "tax", "escalation cap", "late", "" >>

CallCategorize(description) ==
    /\ pc = "idle"
    /\ call = NoCall
    /\ call' = [fn |-> "categorize_charge", description |-> description,
                ret |-> categorize_charge(description)]
    /\ UNCHANGED <<pc, lease_data, invoice_data, total_invoice, seen_descriptions,
                   idx, comparison, first,
                   session_state, page>>

CallFindClause(lease, search_term, category) ==
    /\ pc = "idle"
    /\ call = NoCall
    /\ call' = [fn |-> "find_relevant_clause", lease_data |-> lease,
                search_term |-> search_term, category |-> category,
                ret |-> find_relevant_clause(lease, search_term, category)]
    /\ UNCHANGED <<pc, lease_data, invoice_data, total_invoice, seen_descriptions,
                   idx, comparison, first,
                   session_state, page>>

CallCheckViolation(description, amount, category, lease, total) ==
    /\ pc = "idle"
    /\ call = NoCall
    /\ call' = [fn |-> "check_violation", description |-> description,
                amount |-> amount, category |-> category, lease_data |-> lease,
                total_invoice |-> total,
                ret |-> check_violation(description, amount, category, lease, total)]
    /\ UNCHANGED <<pc, lease_data, invoice_data, total_invoice, seen_descriptions,
                   idx, comparison, first,
                   session_state, page>>

\* The caller takes the result; the next call follows.
Forget ==
    /\ call # NoCall
    /\ call' = NoCall
    /\ UNCHANGED <<pc, lease_data, invoice_data, total_invoice, seen_descriptions,
                   idx, comparison, first,
                   session_state, page>>

NextFn ==
    \/ Forget
    \/ /\ call = NoCall
       /\ \E d \in 1..Len(DescriptionPool) : CallCategorize(DescriptionPool[d])
    \/ /\ call = NoCall
       /\ \E k \in 1..Len(LeasePool), t \in 1..Len(SearchTermPool),
             category \in Categories \cup {NoneStr} :
             CallFindClause(LeasePool[k], SearchTermPool[t], category)
    \/ /\ call = NoCall
       /\ \E d \in 1..Len(DescriptionPool), a \in 1..Len(AmountPool),
             category \in Categories, k \in 1..Len(LeasePool), t \in 1..Len(TotalPool) :
             CallCheckViolation(DescriptionPool[d], AmountPool[a], category,
                                LeasePool[k], TotalPool[t])

\* The helpers applied directly, one call after another.
SpecFn == Init /\ [][NextFn]_vars

\* ------------------------------------------------- calls of the extractors

\* Most lines of an invoice text, and most line items of an AI answer.
MaxLines == 3
MaxAnswer == 2

\* The lines the invoice texts are made of.
LinePool ==
    << "",
       "INVOICE",
       "Base Rent 1000.00",
       "  Property Management Fee $60.50",
       "Late Charge 0.00",
       "2024 CAM 1,250.00",
       "Tax 1.2.34" >>

\* '\n'.join(lines), the text the PDF reader hands over.
RECURSIVE JoinLines(_, _)
JoinLines(picks, n) ==
    IF n = 0 THEN ""
    ELSE IF n = 1 THEN LinePool[picks[1]]
    ELSE JoinLines(picks, n - 1) \o "\n" \o LinePool[picks[n]]

TextPool ==
    {JoinLines(picks, Len(picks)) :
        picks \in UNION {[1..n -> 1..Len(LinePool)] : n \in 0..MaxLines}}

\* The outcomes of the AI call: it raises, or answers with line items
\* (description, amount, category; the schema admits no other field).
Raised == [raises |-> TRUE]
AnswerPool ==
    {Raised} \cup
    {[raises |-> FALSE,
      line_items |-> [i \in 1..Len(picks) |->
                        [description |-> ItemPool[picks[i]].description,
                         amount |-> ItemPool[picks[i]].amount,
                         category |-> ItemPool[picks[i]].category]]] :
        picks \in UNION {[1..n -> 1..Len(ItemPool)] : n \in 0..MaxAnswer}}

\* Most clauses of a lease text.
MaxClauses == 2

\* The clauses the lease texts are made of.
ClausePool ==
    << "LEASE. ",
       "CAM: Tenant pays share. ",
       "Allowed fees: Base Rent\n",
       "Not allowed: late fee, ,X.",
       "Disallowed Fees: legal\n",
       "Property tax: 5%. Gas: x\n",
       "Escalation cap: 3%. cam:. " >>

RECURSIVE JoinClauses(_, _)
JoinClauses(picks, n) ==
    IF n = 0 THEN "" ELSE JoinClauses(picks, n - 1) \o ClausePool[picks[n]]

LeaseTextPool ==
    {JoinClauses(picks, Len(picks)) :
        picks \in UNION {[1..n -> 1..Len(ClausePool)] : n \in 0..MaxClauses}}

\* An answer of the AI call to extract_lease_fields, by its six arrays.
LeaseJson(cam_rules, taxes, utilities, escalation_caps, allowed_fees, disallowed_fees) ==
    [cam_rules |-> cam_rules, taxes |-> taxes, utilities |-> utilities,
     escalation_caps |-> escalation_caps, allowed_fees |-> allowed_fees,
     disallowed_fees |-> disallowed_fees]

\* The answers: one with every array filled (references given, empty, blank
\* and absent), the empty one, one with a type twice, one whose item lacks
\* its type, and the lease of the rule-ordering scenario.
LeaseJsonPool ==
    << LeaseJson(<<ClauseItem("Tenant pays  its share .Landlord", "Section 5.1")>>,
                 <<TypedItem("property", "Tenant pays taxes", "")>>,
                 <<TypedItem("water", "billed at cost", "  ")>>,
                 <<TypedItem("annual", "capped at 3%", "Section 8")>>,
                 <<[exact_wording |-> "Base Rent"]>>,
                 <<ClauseItem("late fee", " Section 9 "),
                   ClauseItem("Management fees", Sentinel)>>),
       LeaseJson(<< >>, << >>, << >>, << >>, << >>, << >>),
       LeaseJson(<< >>,
                 <<TypedItem("property", "first", "Article 4"),
                   TypedItem("property", "second", "\n")>>,
                 << >>, << >>, << >>, << >>),
       LeaseJson(<< >>, << >>,
                 <<[exact_wording |-> "gas", clause_reference |-> "Section 6"]>>,
                 << >>, << >>, << >>),
       LeaseJson(<< >>, << >>, << >>, << >>, << >>,
                 <<ClauseItem("administrative fee", "Section 4.2")>>) >>

\* The outcomes of the AI call of extract_lease_fields: it raises, or it
\* answers.
LeaseAnswerPool ==
    {Raised} \cup {[raises |-> FALSE, json |-> LeaseJsonPool[k]] : k \in 1..Len(LeaseJsonPool)}

CallExtractInvoice(text, api_key, answer) ==
    /\ pc = "idle"
    /\ call = NoCall
    /\ call' = [fn |-> "extract_invoice_line_items", text |-> text,
                api_key |-> api_key, answer |-> answer,
                ret |-> extract_invoice_line_items(text, api_key, answer)]
    /\ UNCHANGED <<pc, lease_data, invoice_data, total_invoice, seen_descriptions,
                   idx, comparison, first, session_state, page>>

CallExtractLease(text, api_key, answer) ==
    /\ pc = "idle"
    /\ call = NoCall
    /\ call' = [fn |-> "extract_lease_fields", text |-> text,
                api_key |-> api_key, answer |-> answer,
                ret |-> extract_lease_fields(text, api_key, answer)]
    /\ UNCHANGED <<pc, lease_data, invoice_data, total_invoice, seen_descriptions,
                   idx, comparison, first, session_state, page>>

NextExtract ==
    \/ Forget
    \/ /\ call = NoCall
       /\ \E text \in LeaseTextPool : CallExtractLease(text, "", Raised)
    \/ /\ call = NoCall
       /\ \E text \in LeaseTextPool, answer \in LeaseAnswerPool :
             CallExtractLease(text, "sk-test", answer)
    \/ /\ call = NoCall
       /\ \E text \in TextPool : CallExtractInvoice(text, "", Raised)
    \/ /\ call = NoCall
       /\ \E text \in TextPool : CallExtractInvoice(text, "sk-test", Raised)
    \/ /\ call = NoCall
       /\ \E k \in 1..Len(LinePool), answer \in AnswerPool \ {Raised} :
             CallExtractInvoice(LinePool[k], "sk-test", answer)

\* The extractors applied directly, one call after another.
SpecExtract == Init /\ [][NextExtract]_vars

\* ------------------------------------------- extraction, then comparison

\* Most lines of the invoice texts and most clauses of the lease texts that
\* are extracted and then compared.
PipelineLines == 1
PipelineClauses == 2

\* The texts that are extracted and then compared.
PipelineLeaseTexts ==
    {JoinClauses(picks, Len(picks)) :
        picks \in UNION {[1..n -> 1..Len(ClausePool)] : n \in 0..PipelineClauses}}
PipelineInvoiceTexts ==
    {JoinLines(picks, Len(picks)) :
        picks \in UNION {[1..n -> 1..Len(LinePool)] : n \in 1..PipelineLines}}

\* The leases extract_lease_fields returns: without a key those of the regex
\* route on the lease texts; with a key, for each answer of the AI call, the
\* lease of the AI route, or of the regex route when the answer cannot be
\* handled.
PipelineLeases ==
    {extract_lease_fields_regex(text) : text \in PipelineLeaseTexts}
    \cup {IF AiRouteRaises(answer.json) THEN extract_lease_fields_regex("LEASE. ")
          ELSE AiRouteLease(answer.json, "LEASE. ") :
             answer \in LeaseAnswerPool \ {Raised}}

\* The line items the invoice extractor returns: by the regex route on the
\* invoice texts, and by the AI route; the empty ones are left out.
PipelineInvoices ==
    {invoice \in
        {extract_invoice_line_items_regex(text) : text \in PipelineInvoiceTexts}
        \cup {NumberedFromOne(answer.line_items) : answer \in AnswerPool \ {Raised}} :
      Len(invoice) > 0}

\* Calls of compare_lease_invoice on what the two extractors return; the
\* call runs check_violation on every item, and check_violation runs
\* find_relevant_clause.
NextPipeline ==
    \/ /\ pc = "idle"
       /\ \E lease \in PipelineLeases, invoice \in PipelineInvoices : Enter(lease, invoice)
    \/ Duplicate
    \/ Check
    \/ Summarize
    \/ Return

\* A statement of the running call is executed: the loop moves to its next
\* item, or the function returns.
LoopStep ==
    /\ pc = "loop"
    /\ \/ pc' = "loop" /\ idx' = idx + 1
       \/ pc' = "done" /\ idx' = idx

\* What the extractors return, compared. The interpreter does not pause
\* inside a call: a call that is in its loop goes on to its next statement.
SpecPipeline ==
    /\ Init
    /\ [][NextPipeline]_vars
    /\ WF_<<pc, idx>>(LoopStep)

\* ---------------------------------------------------- the interactive session

\* Longest invoice extracted in a session, and the charges it is made of.
SessionItems == 2
SessionCharges == {1, 2, 3}

\* The leases and invoices the extract buttons store.
SessionLeases == {LeasePool[1], LeasePool[2], LeasePool[4]}
SessionInvoices == {MakeInvoice(picks) : picks \in UNION {[1..n -> SessionCharges] : n \in 0..SessionItems}}

\* The script starts a run for the button pressed; what the last run drew is gone.
StartRun(button) == [at |-> "tab2", button |-> button, shown |-> None, pdf |-> None]

\* "Extract Lease Data": the extracted lease is stored; nothing else of the
\* session changes.
ExtractLease(lease) ==
    /\ page.at = "wait"
    /\ session_state' = [session_state EXCEPT !.lease_data = lease]
    /\ page' = StartRun("extract_lease")
    /\ UNCHANGED <<pc, lease_data, invoice_data, total_invoice, seen_descriptions,
                   idx, comparison, call, first>>

\* "Extract Invoice Data": the extracted line items are stored; nothing else
\* of the session changes.
ExtractInvoice(invoice) ==
    /\ page.at = "wait"
    /\ session_state' = [session_state EXCEPT !.invoice_data = invoice]
    /\ page' = StartRun("extract_invoice")
    /\ UNCHANGED <<pc, lease_data, invoice_data, total_invoice, seen_descriptions,
                   idx, comparison, call, first>>

\* A run that stores nothing: "Generate PDF Report", or any other interaction
\* (an extraction that found no text among them).
Interact(button) ==
    /\ page.at = "wait"
    /\ page' = StartRun(button)
    /\ UNCHANGED <<pc, lease_data, invoice_data, total_invoice, seen_descriptions,
                   idx, comparison, call, first, session_state>>

\* Both documents are extracted.
BothExtracted ==
    ~FalsyDict(session_state.lease_data) /\ ~FalsyList(session_state.invoice_data)

\* The report tab once the report is at hand: it is displayed, and passed to
\* generate_pdf_report when that button started the run.
Drawn(report) ==
    [at |-> "wait", button |-> page.button, shown |-> report,
     pdf |-> IF page.button = "generate_report" THEN report ELSE None]

\* The report tab without both documents: the hint, and no report.
Tab2Hint ==
    /\ page.at = "tab2"
    /\ ~BothExtracted
    /\ page' = [page EXCEPT !.at = "wait"]
    /\ UNCHANGED <<pc, lease_data, invoice_data, total_invoice, seen_descriptions,
                   idx, comparison, call, first, session_state>>

\* The report tab with no stored comparison: compare_lease_invoice is called
\* on the stored documents.
Tab2Compare ==
    /\ page.at = "tab2"
    /\ BothExtracted
    /\ FalsyDict(session_state.comparison_results)
    /\ pc = "idle"
    /\ Begin(session_state.lease_data, session_state.invoice_data)
    /\ page' = [page EXCEPT !.at = "compare"]
    /\ UNCHANGED first

\* The call returned: the report is stored, then drawn.
Tab2Store ==
    /\ page.at = "compare"
    /\ pc = "done"
    /\ session_state' = [session_state EXCEPT !.comparison_results = comparison]
    /\ page' = Drawn(comparison)
    /\ pc' = "idle"
    /\ lease_data' = None
    /\ invoice_data' = NoneList
    /\ total_invoice' = FromInt(0)
    /\ seen_descriptions' = {}
    /\ idx' = 0
    /\ comparison' = None
    /\ UNCHANGED <<call, first>>

\* The report tab with a stored comparison: it is drawn as stored.
Tab2Stored ==
    /\ page.at = "tab2"
    /\ BothExtracted
    /\ ~FalsyDict(session_state.comparison_results)
    /\ page' = Drawn(session_state.comparison_results)
    /\ UNCHANGED <<pc, lease_data, invoice_data, total_invoice, seen_descriptions,
                   idx, comparison, call, first, session_state>>

NextSession ==
    \/ /\ page.at = "wait"
       /\ \E lease \in SessionLeases : ExtractLease(lease)
    \/ /\ page.at = "wait"
       /\ \E invoice \in SessionInvoices : ExtractInvoice(invoice)
    \/ \E button \in {"generate_report", "none"} : Interact(button)
    \/ Tab2Hint
    \/ Tab2Compare
    \/ Duplicate
    \/ Check
    \/ Summarize
    \/ Tab2Store
    \/ Tab2Stored

\* The script rerun by one interaction after another.
SpecSession == Init /\ [][NextSession]_vars

\* ------------------------------------------------------------------- claims

\* Whether string s starts with prefix.
StartsWith(s, prefix) == Len(s) >= Len(prefix) /\ SubSeq(s, 1, Len(prefix)) = prefix

\* The last call was check_violation(description, amount, category, lease, total).
IsCheckCall == call.fn = "check_violation"

\* The conditions of the six rules on the arguments of the last call, each
\* stated on its own.
Rule1Holds == ContainsAny(Lower(call.description), utility_markup_keywords)
Rule2Holds ==
    /\ ContainsAny(Lower(call.description), legal_keywords)
    /\ ~ContainsAny(Lower(call.description), tenant_terms)
Rule3Holds == ContainsAny(Lower(call.description), capital_improvement_keywords)
Rule4Holds ==
    /\ ContainsAny(Lower(call.description), management_keywords)
    /\ FGt(call.total_invoice, FromInt(0))
    /\ \/ FGt(FMul(FDiv(call.amount, call.total_invoice), FromInt(100)), FromInt(5))
       \/ \E i \in 1..Len(Get(call.lease_data, "disallowed_fees", << >>)) :
             Contains(Lower(FeeText(call.lease_data.disallowed_fees[i])), "management")
Rule5Holds ==
    \E i \in 1..Len(Get(call.lease_data, "disallowed_fees", << >>)) :
        DisallowedMatches(Lower(FeeText(call.lease_data.disallowed_fees[i])),
                          Lower(call.description))
Rule6Holds ==
    /\ call.category = "CAM"
    /\ ContainsAny(Lower(call.description), cam_exclusions)

IsClauseCall == call.fn = "find_relevant_clause"

\* The six collections find_relevant_clause reads.
ClauseSections ==
    {"cam_rules", "disallowed_fees", "allowed_fees", "utilities_details",
     "taxes_details", "escalation_caps_details"}

\* The clause_reference values of the dict entries of a lease, as stored.
StoredRefs(lease) ==
    UNION { {Get(Get(lease, key, << >>)[i], "clause_reference", "") :
                i \in {j \in 1..Len(Get(lease, key, << >>)) :
                          IsDict(Get(lease, key, << >>)[j])}} :
            key \in ClauseSections }

\* The same values with the surrounding whitespace removed.
TrimmedRefs(lease) == {Strip(ref) : ref \in StoredRefs(lease)}

\* C6, as claimed: the result of find_relevant_clause is the empty string or
\* the clause_reference of some lease entry, non-empty and not the sentinel.
C6_ResultIsStoredReference ==
    IsClauseCall =>
        \/ call.ret = ""
        \/ /\ call.ret # Sentinel
           /\ call.ret \in StoredRefs(call.lease_data)

\* C6, amended: find_relevant_clause never returns the sentinel "See lease
\* document", in any letter case: its result is the empty string or the
\* clause_reference of some lease entry with the surrounding whitespace
\* removed, and that is non-empty and not the sentinel.
C6_NeverSentinel ==
    IsClauseCall =>
        /\ Lower(call.ret) # Lower(Sentinel)
        /\ \/ call.ret = ""
           \/ call.ret \in TrimmedRefs(call.lease_data)

\* C6, witness: a lookup whose only candidates carry the sentinel returns "",
\* on a lease that holds the sentinel.
C6_Witness ==
    /\ IsClauseCall
    /\ Sentinel \in StoredRefs(call.lease_data)
    /\ \A ref \in StoredRefs(call.lease_data) : ~IsRealRef(Strip(ref))
    /\ call.ret = ""

\* The categories in the order of the table, and the triggers of each.
C7_Order == <<"CAM", "Tax", "Utilities", "Rent", "Insurance">>
C7_Triggers ==
    << {"cam", "common area", "maintenance"},
       {"tax", "property tax", "real estate"},
       {"utility", "electric", "water", "gas", "sewer", "trash"},
       {"rent", "base rent", "monthly rent"},
       {"insurance", "liability"} >>

\* The rows with a trigger that occurs in the lowercased description.
C7_Hits(description) ==
    {k \in 1..Len(C7_Order) :
        \E trigger \in C7_Triggers[k] : Contains(Lower(description), trigger)}

\* C7: categorize_charge returns the category of the first row, in the order
\* CAM, Tax, Utilities, Rent, Insurance, with a trigger occurring in the
\* description whatever its letter case, and Other when no row matches (the
\* empty string included): always one of the six categories.
C7_FirstRowWins ==
    call.fn = "categorize_charge" =>
        /\ call.ret \in Categories
        /\ IF C7_Hits(call.description) = {} THEN call.ret = "Other"
           ELSE \E k \in C7_Hits(call.description) :
                   /\ \A j \in C7_Hits(call.description) : k <= j
                   /\ call.ret = C7_Order[k]

\* C7, witness: a description with triggers of two rows (CAM and Tax) gets
\* the earlier one.
C7_Witness ==
    /\ call.fn = "categorize_charge"
    /\ {1, 2} \subseteq C7_Hits(call.description)
    /\ call.ret = "CAM"

\* The items of the invoice of the current run (none when invoice_data is None).
InvoiceItems == IF 0 \in DOMAIN invoice_data THEN << >> ELSE invoice_data

\* The current run got a lease that is neither None nor an empty dict.
LeaseGiven == lease_data # None /\ DOMAIN lease_data # {}

\* The positions in mismatches of the entries flagged "Duplicate Charge".
DuplicateEntries ==
    {m \in 1..Len(comparison.mismatches) :
        comparison.mismatches[m].reason = "Duplicate Charge"}

\* Item j shares its lowercased, trimmed description with an earlier item.
IsLaterOccurrence(j) ==
    \E i \in 1..(j - 1) :
        Strip(Lower(InvoiceItems[i].description)) = Strip(Lower(InvoiceItems[j].description))

\* Item j is recorded in mismatches with reason "Duplicate Charge".
InDuplicates(j) ==
    \E m \in DuplicateEntries : comparison.mismatches[m].item = InvoiceItems[j]

InAllowed(j) ==
    \E a \in 1..Len(comparison.allowed_charges) :
        comparison.allowed_charges[a] = InvoiceItems[j]

InDisallowed(j) ==
    \E d \in 1..Len(comparison.disallowed_charges) :
        comparison.disallowed_charges[d].item = InvoiceItems[j]

\* C2, as claimed: in every returned report, an item that shares its
\* normalized description with an earlier item of the invoice is recorded in
\* mismatches with reason "Duplicate Charge".
C2_LaterOccurrenceFlagged ==
    pc = "done" =>
        \A j \in 1..Len(InvoiceItems) : IsLaterOccurrence(j) => InDuplicates(j)

\* C2, amended: when the lease is neither None nor empty, an item that shares
\* its normalized (lowercased, trimmed) description with an earlier item is
\* recorded in mismatches with reason "Duplicate Charge", whatever rule it
\* would match and whether or not the first occurrence was flagged; with an
\* empty or absent lease nothing is recorded.
C2_LaterOccurrenceFlaggedGivenLease ==
    pc = "done" =>
        IF LeaseGiven
        THEN \A j \in 1..Len(InvoiceItems) :
                /\ IsLaterOccurrence(j) => InDuplicates(j) /\ ~InDisallowed(j)
                /\ ~IsLaterOccurrence(j) => ~InDuplicates(j)
        ELSE comparison.mismatches = << >>

\* C2, witness: the second occurrence of a charge that check_violation
\* reports under a rule is recorded as a duplicate, not under that rule.
C2_Witness ==
    /\ pc = "done"
    /\ LeaseGiven
    /\ \E j \in 1..Len(InvoiceItems) :
          /\ IsLaterOccurrence(j)
          /\ check_violation(InvoiceItems[j].description, InvoiceItems[j].amount,
                             InvoiceItems[j].category, lease_data, total_invoice).is_violation
          /\ InDuplicates(j)
          /\ ~InDisallowed(j)

\* report['summary'].get(field, 0), as the renderers read the summary.
SummaryField(field) == Get(comparison.summary, field, FromInt(0))

\* |x - y| and |x|, as integers in units of 2^e0.
GapIn(x, y, e0) == Abs(Scaled(x, e0) - Scaled(y, e0))
SizeIn(x, e0) == Abs(Scaled(x, e0))

\* The exponent of the unit in which the summary's three totals and the
\* sum total_allowed + total_overcharge are all integers.
C3_Unit ==
    Min(Min(SummaryField("total_allowed").e, SummaryField("total_overcharge").e),
        Min(SummaryField("total_invoice_amount").e,
            FAdd(SummaryField("total_allowed"), SummaryField("total_overcharge")).e))

\* C3, as claimed: in every returned report total_allowed + total_overcharge
\* equals total_invoice_amount.
C3_ExactBalance ==
    pc = "done" =>
        FAdd(SummaryField("total_allowed"), SummaryField("total_overcharge"))
            = SummaryField("total_invoice_amount")

\* C3, amended: in every returned report total_allowed + total_overcharge
\* equals total_invoice_amount within floating-point tolerance: they differ
\* by at most 2^(2 - MantBits) times |total_invoice_amount| + |total_overcharge|.
C3_BalanceWithinTolerance ==
    pc = "done" =>
        GapIn(FAdd(SummaryField("total_allowed"), SummaryField("total_overcharge")),
              SummaryField("total_invoice_amount"), C3_Unit) * Pow2(MantBits - 2)
          <= SizeIn(SummaryField("total_invoice_amount"), C3_Unit)
               + SizeIn(SummaryField("total_overcharge"), C3_Unit)

\* C3, witness: a report with overcharges on which the two sides differ by
\* rounding.
C3_Witness ==
    /\ pc = "done"
    /\ LeaseGiven
    /\ comparison.overcharges # << >>
    /\ comparison.allowed_charges # << >>
    /\ FAdd(SummaryField("total_allowed"), SummaryField("total_overcharge"))
         # SummaryField("total_invoice_amount")

\* C4, as claimed: in every returned report each item of the invoice is in
\* exactly one of allowed_charges, disallowed_charges and the duplicates, so
\* the three counts add up to the number of items.
C4_EveryItemInOneGroup ==
    pc = "done" =>
        /\ Len(comparison.allowed_charges) + Len(comparison.disallowed_charges)
             + Cardinality(DuplicateEntries) = Len(InvoiceItems)
        /\ \A j \in 1..Len(InvoiceItems) :
              /\ InAllowed(j) \/ InDisallowed(j) \/ InDuplicates(j)
              /\ ~(InAllowed(j) /\ InDisallowed(j))
              /\ ~(InAllowed(j) /\ InDuplicates(j))
              /\ ~(InDisallowed(j) /\ InDuplicates(j))

\* C4, amended: in every report returned for a lease that is neither None nor
\* empty, each item of the invoice is in exactly one of allowed_charges,
\* disallowed_charges and the duplicates (flagged "Duplicate Charge" in
\* mismatches, in neither list), so the three counts add up to the number of
\* items; with an empty or absent lease the three groups are empty.
C4_EveryItemInOneGroupGivenLease ==
    pc = "done" =>
        IF LeaseGiven
        THEN /\ Len(comparison.allowed_charges) + Len(comparison.disallowed_charges)
                  + Cardinality(DuplicateEntries) = Len(InvoiceItems)
             /\ \A j \in 1..Len(InvoiceItems) :
                   /\ InAllowed(j) \/ InDisallowed(j) \/ InDuplicates(j)
                   /\ ~(InAllowed(j) /\ InDisallowed(j))
                   /\ ~(InAllowed(j) /\ InDuplicates(j))
                   /\ ~(InDisallowed(j) /\ InDuplicates(j))
        ELSE /\ comparison.allowed_charges = << >>
             /\ comparison.disallowed_charges = << >>
             /\ DuplicateEntries = {}

\* C4, witness: a report in which each of the three groups holds an item.
C4_Witness ==
    /\ pc = "done"
    /\ LeaseGiven
    /\ comparison.allowed_charges # << >>
    /\ comparison.disallowed_charges # << >>
    /\ DuplicateEntries # {}

\* C5: a run of compare_lease_invoice on the arguments of an earlier run
\* returns the report the earlier run returned, whether it follows that run
\* directly or after a run on another invoice, whatever the earlier runs left
\* in the locals.
C5_SameInputsSameReport ==
    (pc = "done" /\ first # None
        /\ <<lease_data, invoice_data>> = <<first.lease, first.invoice>>)
      => comparison = first.report

\* C5, witness: the second run, after a run on another invoice, of an invoice
\* with a duplicate and a rule violation has returned.
C5_Witness ==
    /\ pc = "done"
    /\ first # None
    /\ <<lease_data, invoice_data>> = <<first.lease, first.invoice>>
    /\ seen_descriptions # {}
    /\ DuplicateEntries # {}
    /\ comparison.disallowed_charges # << >>

\* C8: when the lease is None or empty, or the item list is None or empty,
\* the returned report has no mismatches, overcharges, allowed or disallowed
\* charges and a total_overcharge of 0, and no item was evaluated.
C8_EmptyInputEmptyReport ==
    (pc = "done" /\ (~LeaseGiven \/ InvoiceItems = << >>)) =>
        /\ comparison.mismatches = << >>
        /\ comparison.overcharges = << >>
        /\ comparison.allowed_charges = << >>
        /\ comparison.disallowed_charges = << >>
        /\ comparison.total_overcharge = FromInt(0)
        /\ idx = 0
        /\ seen_descriptions = {}

\* C8, witness: an empty dict as lease with an invoice of MaxItems items, the
\* first of which rule 1 would flag, returns the empty report.
C8_Witness ==
    /\ pc = "done"
    /\ lease_data # None
    /\ DOMAIN lease_data = {}
    /\ Len(InvoiceItems) = MaxItems
    /\ ContainsAny(Lower(InvoiceItems[1].description), utility_markup_keywords)
    /\ comparison.mismatches = << >>

\* The six fields of the summary.
SummaryFields ==
    {"total_invoice_amount", "total_overcharge", "total_allowed", "number_of_items",
     "number_of_mismatches", "overcharge_percentage"}

\* Zero as a field of the summary holds it: 0 for the two counts, 0.0 for
\* the amounts and the percentage.
ZeroOf(field) ==
    IF field \in {"number_of_items", "number_of_mismatches"} THEN 0 ELSE FromInt(0)

\* C9, as claimed: for an empty item list with a non-empty lease the summary
\* of the returned report has its six fields, each equal to zero.
C9_ZeroSummaryFields ==
    (pc = "done" /\ LeaseGiven /\ invoice_data = << >>) =>
        /\ SummaryFields \subseteq DOMAIN comparison.summary
        /\ \A field \in SummaryFields : comparison.summary[field] = ZeroOf(field)

\* C9, amended: for an empty item list with a non-empty lease the summary of
\* the returned report is the empty dict: none of the six fields is present,
\* and a field read with the default 0, as the renderers read it, is zero.
C9_EmptySummary ==
    (pc = "done" /\ LeaseGiven /\ invoice_data = << >>) =>
        /\ DOMAIN comparison.summary = {}
        /\ \A field \in SummaryFields :
              Get(comparison.summary, field, ZeroOf(field)) = ZeroOf(field)

\* C9, witness: the report of an empty item list with a lease that has
\* disallowed fees.
C9_Witness ==
    /\ pc = "done"
    /\ LeaseGiven
    /\ Get(lease_data, "disallowed_fees", << >>) # << >>
    /\ invoice_data = << >>
    /\ DOMAIN comparison.summary = {}

\* The case of C10: a management-fee item that rules 1 to 3 let through, on
\* an invoice with a positive total.
C10_Case ==
    /\ IsCheckCall
    /\ ContainsAny(Lower(call.description), management_keywords)
    /\ ~Rule1Holds /\ ~Rule2Holds /\ ~Rule3Holds
    /\ FGt(call.total_invoice, FromInt(0))

\* amount / totalInvoice * 100 of the last call.
C10_Pct == FMul(FDiv(call.amount, call.total_invoice), FromInt(100))

\* C10: in that case check_violation reports "Management Fee Over 5% (pct%)"
\* exactly when amount / totalInvoice * 100 is strictly greater than 5 (at
\* exactly 5 it does not), with the percentage to one decimal in the reason
\* and in the explanation; amount 60 of total 1000 gives 6.0%.
C10_ManagementFeeOverFive ==
    C10_Case =>
        /\ StartsWith(call.ret.reason, "Management Fee Over 5%")
             = (FCmp(C10_Pct, FromInt(5)) = 1)
        /\ StartsWith(call.ret.reason, "Management Fee Over 5%") =>
             /\ call.ret.reason = "Management Fee Over 5% (" \o Format1f(C10_Pct) \o "%)"
             /\ Contains(call.ret.explanation,
                         "This charge represents " \o Format1f(C10_Pct) \o "% of the total invoice")
        /\ (call.amount = FromInt(60) /\ call.total_invoice = FromInt(1000)) =>
             call.ret.reason = "Management Fee Over 5% (6.0%)"
        /\ (call.amount = FromInt(50) /\ call.total_invoice = FromInt(1000)) =>
             ~StartsWith(call.ret.reason, "Management Fee Over 5%")

\* C10, witness: the item at 60 of 1000 is reported at 6.0%.
C10_Witness ==
    /\ C10_Case
    /\ call.amount = FromInt(60)
    /\ call.total_invoice = FromInt(1000)
    /\ call.ret.reason = "Management Fee Over 5% (6.0%)"

\* The items recorded in mismatches, in the order of mismatches.
FlaggedItems == [m \in 1..Len(comparison.mismatches) |-> comparison.mismatches[m].item]

\* The invoice is the scenario's: "Base Rent" at 1000, twice.
IsBaseRentTwice ==
    /\ Len(InvoiceItems) = 2
    /\ \A j \in 1..2 :
          /\ InvoiceItems[j].description = "Base Rent"
          /\ InvoiceItems[j].amount = FromInt(1000)

\* C11: in every report returned on non-empty inputs total_overcharge is the
\* sum, taken in the order of mismatches, of the amounts of the items recorded
\* in mismatches, a duplicate counting with its full amount; two "Base Rent"
\* items of 1000, the first of which is allowed, give total_overcharge 1000.
C11_OverchargeIsSumOfFlagged ==
    (pc = "done" /\ LeaseGiven /\ InvoiceItems # << >>) =>
        /\ comparison.total_overcharge = SumAmounts(FlaggedItems, Len(FlaggedItems))
        /\ comparison.summary.total_overcharge = comparison.total_overcharge
        /\ (IsBaseRentTwice /\ InAllowed(1)) =>
              /\ InDuplicates(2)
              /\ comparison.total_overcharge = FromInt(1000)

\* C11, witness: the report on two "Base Rent" items of 1000, the second a
\* duplicate, with total_overcharge 1000.
C11_Witness ==
    /\ pc = "done"
    /\ LeaseGiven
    /\ IsBaseRentTwice
    /\ InAllowed(1)
    /\ InDuplicates(2)
    /\ comparison.total_overcharge = FromInt(1000)

\* check_violation flags item j of the current invoice.
WouldViolate(j) ==
    check_violation(InvoiceItems[j].description, InvoiceItems[j].amount,
                    InvoiceItems[j].category, lease_data, total_invoice).is_violation

\* The items of a list of the report are invoice items, in the order of the
\* invoice, none twice.
InInvoiceOrder(items) ==
    /\ \A i \in 1..Len(items) :
          /\ items[i].line_number \in 1..Len(InvoiceItems)
          /\ items[i] = InvoiceItems[items[i].line_number]
    /\ \A i, k \in 1..Len(items) : i < k => items[i].line_number < items[k].line_number

\* C12: in every report mismatches holds one entry per flagged item (the
\* duplicates and the items check_violation flags), in the order of the
\* invoice; overcharges has the same length and its i-th entry carries the
\* description, amount and reason of the i-th mismatch; allowed_charges is in
\* the order of the invoice too.
C12_ParallelAndOrdered ==
    pc = "done" =>
        /\ Len(comparison.overcharges) = Len(comparison.mismatches)
        /\ \A i \in 1..Len(comparison.mismatches) :
              comparison.overcharges[i] =
                 [description |-> comparison.mismatches[i].item.description,
                  amount |-> comparison.mismatches[i].item.amount,
                  reason |-> comparison.mismatches[i].reason]
        /\ InInvoiceOrder(FlaggedItems)
        /\ InInvoiceOrder(comparison.allowed_charges)
        /\ LeaseGiven =>
              \A j \in 1..Len(InvoiceItems) :
                 (\E m \in 1..Len(FlaggedItems) : FlaggedItems[m] = InvoiceItems[j])
                    = (IsLaterOccurrence(j) \/ WouldViolate(j))

\* C12, witness: a report with a rule violation and a duplicate in mismatches
\* and an allowed item between or around them.
C12_Witness ==
    /\ pc = "done"
    /\ Len(comparison.mismatches) = 2
    /\ DuplicateEntries # {}
    /\ comparison.disallowed_charges # << >>
    /\ comparison.allowed_charges # << >>
    /\ comparison.overcharges[2].reason = comparison.mismatches[2].reason

\* The first entry of a collection, from position k on, that is a dict (with,
\* when by_term, a wording containing the term), and whose clause_reference
\* is, once trimmed, non-empty and not the sentinel: its clause_reference,
\* trimmed or as stored; "" when there is none.
RECURSIVE C13_FirstOf(_, _, _, _, _)
C13_FirstOf(section, k, by_term, term, trimmed) ==
    IF k > Len(section) THEN ""
    ELSE LET stored == Get(section[k], "clause_reference", "")
         IN  IF /\ IsDict(section[k])
                /\ by_term => /\ "exact_wording" \in DOMAIN section[k]
                              /\ Contains(Lower(section[k].exact_wording), Lower(term))
                /\ Strip(stored) # ""
                /\ Lower(Strip(stored)) # Lower(Sentinel)
             THEN IF trimmed THEN Strip(stored) ELSE stored
             ELSE C13_FirstOf(section, k + 1, by_term, term, trimmed)

\* The first non-empty result of the steps from s on.
RECURSIVE C13_FirstStep(_, _)
C13_FirstStep(steps, s) ==
    IF s > Len(steps) THEN ""
    ELSE IF steps[s] # "" THEN steps[s]
    ELSE C13_FirstStep(steps, s + 1)

\* The short-circuit algorithm: steps 1 to 6 where applicable, then the
\* fallback scan, each step giving its first reference.
C13_ShortCircuit(lease, term, category, trimmed) ==
    LET Step(key, by_term) ==
            C13_FirstOf(Get(lease, key, << >>), 1, by_term, term, trimmed)
    IN  C13_FirstStep(
          << Step("disallowed_fees", TRUE),
             Step("allowed_fees", TRUE),
             IF category = "CAM" \/ Contains(Lower(term), "cam")
                                 \/ Contains(Lower(term), "common area")
             THEN Step("cam_rules", FALSE) ELSE "",
             IF Contains(Lower(term), "utility") \/ category = "Utilities"
             THEN Step("utilities_details", FALSE) ELSE "",
             IF Contains(Lower(term), "tax") \/ category = "Tax"
             THEN Step("taxes_details", FALSE) ELSE "",
             IF Contains(Lower(term), "escalation") \/ Contains(Lower(term), "cap")
             THEN Step("escalation_caps_details", FALSE) ELSE "",
             Step("cam_rules", FALSE),
             Step("disallowed_fees", FALSE),
             Step("allowed_fees", FALSE),
             Step("utilities_details", FALSE),
             Step("taxes_details", FALSE),
             Step("escalation_caps_details", FALSE) >>, 1)

\* C13, as claimed: find_relevant_clause returns what the short-circuit
\* algorithm returns: the clause_reference of the first entry, non-empty and
\* not the sentinel, of the earliest applicable step.
C13_EqualsShortCircuit ==
    IsClauseCall =>
        call.ret = C13_ShortCircuit(call.lease_data, call.search_term, call.category, FALSE)

\* C13, amended: find_relevant_clause returns what the short-circuit
\* algorithm returns when references are taken with the surrounding
\* whitespace removed: the trimmed clause_reference of the first entry of the
\* earliest applicable step whose trimmed reference is non-empty and not the
\* sentinel.
C13_EqualsShortCircuitTrimmed ==
    IsClauseCall =>
        call.ret = C13_ShortCircuit(call.lease_data, call.search_term, call.category, TRUE)

\* C13, witness: a lookup to which two steps contribute (the allowed fees by
\* the term, the utilities by the category) returns the reference of the
\* earlier step.
C13_Witness ==
    /\ IsClauseCall
    /\ call.category = "Utilities"
    /\ C13_FirstOf(Get(call.lease_data, "disallowed_fees", << >>), 1, TRUE,
                   call.search_term, TRUE) = ""
    /\ C13_FirstOf(Get(call.lease_data, "allowed_fees", << >>), 1, TRUE,
                   call.search_term, TRUE) = call.ret
    /\ C13_FirstOf(Get(call.lease_data, "utilities_details", << >>), 1, FALSE,
                   call.search_term, TRUE) \notin {"", call.ret}

\* The positions of the disallowed_fees entries of the last call's lease that
\* are dicts with an exact_wording containing "management", whatever the case.
C14_ManagementEntries ==
    {i \in 1..Len(Get(call.lease_data, "disallowed_fees", << >>)) :
        /\ IsDict(call.lease_data.disallowed_fees[i])
        /\ "exact_wording" \in DOMAIN call.lease_data.disallowed_fees[i]
        /\ Contains(Lower(call.lease_data.disallowed_fees[i].exact_wording), "management")}

\* The first of them.
C14_FirstEntry ==
    call.lease_data.disallowed_fees[
        CHOOSE i \in C14_ManagementEntries : \A k \in C14_ManagementEntries : i <= k]

\* A management-fee item that rules 1 to 3 let through, on a lease that
\* disallows management fees.
C14_Item ==
    /\ IsCheckCall
    /\ ContainsAny(Lower(call.description), management_keywords)
    /\ ~Rule1Holds /\ ~Rule2Holds /\ ~Rule3Holds
    /\ C14_ManagementEntries # {}

\* check_violation reported "Management Fee Not Allowed" with the
\* clause_reference of the first entry that names management.
C14_ReportedNotAllowed ==
    /\ call.ret.is_violation
    /\ call.ret.reason = "Management Fee Not Allowed"
    /\ call.ret.clause_reference = Get(C14_FirstEntry, "clause_reference", "")

\* C14, as claimed: for a management-fee item that matches none of rules 1 to
\* 3, whenever the total is not greater than 0 or the percentage is at most
\* 5, and some disallowed_fees entry's wording contains "management",
\* check_violation reports "Management Fee Not Allowed" with the
\* clause_reference of the first such entry.
C14_ManagementFeeNotAllowed ==
    (C14_Item /\ (~FGt(call.total_invoice, FromInt(0)) \/ ~FGt(C10_Pct, FromInt(5))))
        => C14_ReportedNotAllowed

\* C14, what the code does: the report is made when the total is greater
\* than 0 and the percentage at most 5; when the total is not greater than 0
\* the disallowed entries are not looked at by rule 4, and the verdict is
\* that of rules 5 and 6.
C14_NotAllowedOnlyUnderPositiveTotal ==
    C14_Item =>
        IF FGt(call.total_invoice, FromInt(0))
        THEN ~FGt(C10_Pct, FromInt(5)) => C14_ReportedNotAllowed
        ELSE call.ret = DisallowedOrCam(Lower(call.description), call.category,
                                        call.lease_data)

\* C14, witness: a management fee of 0 on an invoice whose total is 0, under
\* a lease that disallows management charges, is not flagged at all.
C14_Witness ==
    /\ C14_Item
    /\ call.amount = FromInt(0)
    /\ call.total_invoice = FromInt(0)
    /\ call.ret = NotViolating

\* The wording of a disallowed_fees entry: its exact_wording, or the entry
\* itself when it is a plain string.
C15_Wording(entry) ==
    IF IsDict(entry) THEN Get(entry, "exact_wording", "") ELSE entry.str

\* Entry i of the last call's disallowed_fees matches the description: its
\* lowercased wording is a substring of the lowercased description, or one
\* of its words longer than 3 characters is.
C15_Matches(i) ==
    LET wording == Lower(C15_Wording(call.lease_data.disallowed_fees[i]))
    IN  \/ Contains(Lower(call.description), wording)
        \/ \E word \in Words(wording) :
              Len(word) > 3 /\ Contains(Lower(call.description), word)

C15_Hits ==
    {i \in 1..Len(Get(call.lease_data, "disallowed_fees", << >>)) : C15_Matches(i)}

\* The first matching entry.
C15_First ==
    call.lease_data.disallowed_fees[CHOOSE i \in C15_Hits : \A k \in C15_Hits : i <= k]

\* The entry carries a reference of its own: a clause_reference that, once
\* trimmed, is non-empty and not the sentinel.
C15_HasOwnRef(entry) ==
    /\ IsDict(entry)
    /\ Strip(Get(entry, "clause_reference", "")) # ""
    /\ Lower(Strip(Get(entry, "clause_reference", ""))) # Lower(Sentinel)

\* An item that none of rules 1 to 4 flags.
C15_Item == IsCheckCall /\ ~Rule1Holds /\ ~Rule2Holds /\ ~Rule3Holds /\ ~Rule4Holds

\* The report of rule 5 for the first matching entry, but for the reference.
C15_ReportsFirst ==
    /\ call.ret.is_violation
    /\ call.ret.reason =
          "Disallowed Fee: " \o
             (IF Len(C15_Wording(C15_First)) <= 50 THEN C15_Wording(C15_First)
              ELSE SubSeq(C15_Wording(C15_First), 1, 50))

\* C15, as claimed: for an item that matches none of rules 1 to 4,
\* check_violation reports "Disallowed Fee: <first 50 characters of the
\* wording>" for the first disallowed_fees entry that matches, with that
\* entry's own clause_reference when it has one and otherwise the result of
\* find_relevant_clause(lease, "disallowed", None); it reports no disallowed
\* fee when no entry matches.
C15_FirstDisallowedEntryWins ==
    C15_Item =>
        IF C15_Hits = {} THEN ~StartsWith(call.ret.reason, "Disallowed Fee: ")
        ELSE /\ C15_ReportsFirst
             /\ call.ret.clause_reference =
                   IF C15_HasOwnRef(C15_First) THEN C15_First.clause_reference
                   ELSE find_relevant_clause(call.lease_data, "disallowed", NoneStr)

\* C15, amended: the same, the entry's own clause_reference being reported
\* with its surrounding whitespace removed.
C15_FirstDisallowedEntryWinsTrimmed ==
    C15_Item =>
        IF C15_Hits = {} THEN ~StartsWith(call.ret.reason, "Disallowed Fee: ")
        ELSE /\ C15_ReportsFirst
             /\ call.ret.clause_reference =
                   IF C15_HasOwnRef(C15_First) THEN Strip(C15_First.clause_reference)
                   ELSE find_relevant_clause(call.lease_data, "disallowed", NoneStr)

\* C15, witness: the second entry is the first that matches, by a word
\* longer than 3 characters; its wording is cut at 50 characters and its own
\* reference is reported.
C15_Witness ==
    /\ C15_Item
    /\ C15_Hits = {2}
    /\ ~Contains(Lower(call.description), Lower(C15_Wording(C15_First)))
    /\ Len(C15_Wording(C15_First)) > 50
    /\ Len(call.ret.reason) = 66
    /\ C15_HasOwnRef(C15_First)
    /\ call.ret.clause_reference = Strip(C15_First.clause_reference)

\* ---- C16

\* A report is on the page.
C16_Displayed == page.at = "wait" /\ page.shown # None

\* A report was passed to generate_pdf_report.
C16_Printed == page.at = "wait" /\ page.pdf # None

\* The report of the documents the session holds now.
C16_Current == compare_lease_invoice(session_state.lease_data, session_state.invoice_data)

\* The returned report is the value of the function on the arguments.
C16_StepsAgree == pc = "done" => comparison = compare_lease_invoice(lease_data, invoice_data)

\* C16: once a lease or an invoice has been extracted again, every report the
\* session displays or passes to the PDF generator is compare_lease_invoice of
\* the lease_data and invoice_data the session holds at that moment.
C16_ReportIsOfCurrentDocuments ==
    /\ C16_Displayed => page.shown = C16_Current
    /\ C16_Printed => page.pdf = C16_Current

\* A run started by an extraction has drawn the report of other documents.
C16_Witness ==
    /\ C16_Displayed
    /\ page.button \in {"extract_lease", "extract_invoice"}
    /\ page.shown # C16_Current
    /\ page.shown = session_state.comparison_results

\* ---- C17

\* The last call was extract_invoice_line_items(text, api_key).
IsExtractInvoiceCall == call.fn = "extract_invoice_line_items"

\* The call went through the regex extractor: no key, or the AI call raised.
C17_RegexPath == IsExtractInvoiceCall /\ (call.api_key = "" \/ call.answer.raises)

\* The items carry the numbers 1, 2, ..., N in their order.
C17_OneToN(line_items) == \A i \in 1..Len(line_items) : line_items[i].line_number = i

\* C17: every list extract_invoice_line_items returns, through the AI path or
\* through the regex fallback, carries the line_number values 1, 2, ..., N in
\* the order of its items.
C17_LineNumbersOneToN == IsExtractInvoiceCall => C17_OneToN(call.ret)

\* On the AI path the numbers are 1..N; on the regex path they are the numbers
\* of the text's lines the items stand on: positive, increasing, at most the
\* number of lines.
C17_LineNumbersOfTextLines ==
    /\ IsExtractInvoiceCall /\ ~C17_RegexPath => C17_OneToN(call.ret)
    /\ C17_RegexPath =>
          /\ \A i \in 1..Len(call.ret) :
                call.ret[i].line_number \in 1..Len(SplitLines(call.text))
          /\ \A i, j \in 1..Len(call.ret) :
                i < j => call.ret[i].line_number < call.ret[j].line_number

\* The regex path returned items whose numbers skip a line of the text.
C17_Witness ==
    /\ C17_RegexPath
    /\ Len(call.ret) >= 2
    /\ ~C17_OneToN(call.ret)

\* ---- C18

\* The last call was extract_lease_fields(text, api_key).
IsExtractLeaseCall == call.fn = "extract_lease_fields"

\* No key was configured, or the AI call or the handling of its answer failed.
C18_Fallback ==
    /\ IsExtractLeaseCall
    /\ \/ call.api_key = ""
       \/ call.answer.raises
       \/ AiRouteRaises(call.answer.json)

\* The fields of LeaseTerms.
C18_Fields ==
    {"cam_rules", "taxes", "utilities", "escalation_caps", "taxes_details",
     "utilities_details", "escalation_caps_details", "allowed_fees", "disallowed_fees",
     "raw_text"}

\* The clause collections of a lease.
C18_Collections ==
    {"cam_rules", "taxes_details", "utilities_details", "escalation_caps_details",
     "allowed_fees", "disallowed_fees"}

\* A ClauseItem: exact_wording, and a clause_reference that is not empty.
C18_IsClauseItem(entry) ==
    /\ IsDict(entry)
    /\ {"exact_wording", "clause_reference"} \subseteq DOMAIN entry
    /\ entry.clause_reference # ""

\* The entries of a lease's clause collections.
C18_Entries(lease) ==
    UNION {{lease[c][i] : i \in 1..Len(lease[c])} : c \in C18_Collections \cap DOMAIN lease}

\* C18: without an API key, or when the AI call fails, extract_lease_fields
\* returns a structurally valid LeaseTerms: every field of the data model is
\* present, and every entry of the clause collections is a ClauseItem with
\* exact_wording and a non-empty clause_reference.
C18_FallbackIsLeaseTerms ==
    C18_Fallback =>
        /\ C18_Fields \subseteq DOMAIN call.ret
        /\ \A entry \in C18_Entries(call.ret) : C18_IsClauseItem(entry)

\* What the fallback returns: the seven keys of extract_lease_fields_regex,
\* none of the *_details, and plain strings in the three lists.
C18_FallbackShape ==
    C18_Fallback =>
        /\ DOMAIN call.ret = C18_Fields \ {"taxes_details", "utilities_details",
                                           "escalation_caps_details"}
        /\ \A entry \in C18_Entries(call.ret) : ~IsDict(entry)

\* With a key and an AI call that succeeds, the lease is a LeaseTerms.
C18_AiRouteIsLeaseTerms ==
    IsExtractLeaseCall /\ ~C18_Fallback =>
        /\ C18_Fields \subseteq DOMAIN call.ret
        /\ \A entry \in C18_Entries(call.ret) : C18_IsClauseItem(entry)

\* The fallback returned a lease that lists fees and CAM rules.
C18_Witness ==
    /\ C18_Fallback
    /\ call.answer.raises /\ call.api_key # ""
    /\ Len(call.ret.cam_rules) > 0
    /\ Len(call.ret.allowed_fees) > 0
    /\ Len(call.ret.disallowed_fees) > 0

\* ---- C19

\* The lease of the running call came from the regex extractor: plain strings
\* in its lists, no *_details collections.
C19_FallbackLease ==
    /\ DOMAIN lease_data = {"cam_rules", "taxes", "utilities", "escalation_caps",
                            "allowed_fees", "disallowed_fees", "raw_text"}
    /\ \E i \in 1..Len(lease_data.disallowed_fees) : ~IsDict(lease_data.disallowed_fees[i])

\* No function raises: not the running compare_lease_invoice, and not
\* check_violation or find_relevant_clause on the item the loop is at.
C19_NothingRaises ==
    pc \in {"loop", "done"} =>
        /\ ~compare_lease_invoice_raises(lease_data, invoice_data)
        /\ ~check_violation_raises(lease_data, total_invoice)
        /\ ~find_relevant_clause_raises(lease_data)

\* A call that returned has its result: the report of the whole invoice, with
\* a verdict of check_violation on every item that is not a duplicate.
C19_HasResult ==
    pc = "done" =>
        /\ comparison = compare_lease_invoice(lease_data, invoice_data)
        /\ comparison.summary.number_of_items = Len(invoice_data)
        /\ \A i \in 1..Len(invoice_data) :
              check_violation(invoice_data[i].description, invoice_data[i].amount,
                              invoice_data[i].category, lease_data,
                              total_invoice).is_violation \in BOOLEAN

\* The loop has a next statement: an item to handle, or the summary.
C19_LoopCanStep == pc = "loop" => idx <= Len(invoice_data)

\* C19: on every well-formed line-item list and every lease either extractor
\* returns, the fallback lease of plain strings without *_details included,
\* compare_lease_invoice, check_violation and find_relevant_clause raise no
\* error and end with a result.
C19_TotalOnExtractedInputs ==
    /\ [](C19_NothingRaises /\ C19_HasResult /\ C19_LoopCanStep)
    /\ (pc = "loop" ~> pc = "done")

\* A comparison on a fallback lease returned, a charge flagged by one of the
\* lease's plain strings.
C19_Witness ==
    /\ pc = "done"
    /\ C19_FallbackLease
    /\ \E i \in 1..Len(comparison.mismatches) :
          comparison.mismatches[i].reason = "Disallowed Fee: late fee"

\* ---- C20

\* A line item that is not well-formed: a required field missing, a negative
\* amount, or a category outside the six.
C20_Malformed(item) ==
    \/ ItemRaises(item)
    \/ FGt(FromInt(0), item.amount)
    \/ item.category \notin Categories

\* The report files the item as allowed.
C20_Allowed(item) ==
    \E a \in 1..Len(comparison.allowed_charges) : comparison.allowed_charges[a] = item

\* The report files the item as a violation.
C20_Violation(item) ==
    \E v \in 1..Len(comparison.mismatches) : comparison.mismatches[v].item = item

\* C20: compare_lease_invoice rejects a malformed line item with an
\* invalid-input error; no report it returns has such an item among the
\* allowed charges or among the violations.
C20_MalformedItemRejected ==
    pc = "done" /\ ~FalsyList(invoice_data) =>
        \A i \in 1..Len(invoice_data) :
            C20_Malformed(invoice_data[i]) =>
                ~C20_Allowed(invoice_data[i]) /\ ~C20_Violation(invoice_data[i])

\* A call returned its report on an invoice with a negative amount: the
\* item is among the allowed charges, or among the violations.
C20_Witness ==
    /\ pc = "done"
    /\ ~FalsyList(invoice_data)
    /\ \E i \in 1..Len(invoice_data) :
          /\ FGt(FromInt(0), invoice_data[i].amount)
          /\ C20_Allowed(invoice_data[i]) \/ C20_Violation(invoice_data[i])

\* ---- C21

\* The AI route of the last extraction failed: the call, or the handling of
\* its answer.
C21_AiFailed ==
    /\ call.fn \in {"extract_lease_fields", "extract_invoice_line_items"}
    /\ call.api_key # ""
    /\ \/ call.answer.raises
       \/ call.fn = "extract_lease_fields" /\ AiRouteRaises(call.answer.json)

\* C21: an extraction never fails outright. Whether the key is absent, the AI
\* call succeeds or it raises, extract_lease_fields returns a lease and
\* extract_invoice_line_items a list of items (possibly empty); when the AI
\* route fails the result is the one of the regex fallback, and no exception
\* reaches the caller.
C21_ExtractionNeverFails ==
    /\ IsExtractLeaseCall =>
          /\ ~extract_lease_fields_raises(call.api_key, call.answer)
          /\ {"cam_rules", "taxes", "utilities", "escalation_caps", "allowed_fees",
              "disallowed_fees", "raw_text"} \subseteq DOMAIN call.ret
          /\ C21_AiFailed => call.ret = extract_lease_fields_regex(call.text)
    /\ IsExtractInvoiceCall =>
          /\ ~extract_invoice_line_items_raises(call.api_key, call.answer)
          /\ DOMAIN call.ret = 1..Len(call.ret)
          /\ C21_AiFailed => call.ret = extract_invoice_line_items_regex(call.text)

\* The answer of the AI call could not be handled (an item without its type),
\* and the caller got the lease of the regex fallback, fees included.
C21_Witness ==
    /\ IsExtractLeaseCall
    /\ call.api_key # "" /\ ~call.answer.raises
    /\ AiRouteRaises(call.answer.json)
    /\ "taxes_details" \notin DOMAIN call.ret
    /\ Len(call.ret.disallowed_fees) > 0

\* ---- C22

\* Some item before item i has the same lowercased, trimmed description.
C22_SeenBefore(i) ==
    \E j \in 1..(i - 1) :
        Normalized(invoice_data[j].description) = Normalized(invoice_data[i].description)

\* The entries of mismatches that flag item i as a duplicate.
C22_DuplicateEntries(i) ==
    {m \in 1..Len(comparison.mismatches) :
        /\ comparison.mismatches[m].item = invoice_data[i]
        /\ comparison.mismatches[m].reason = "Duplicate Charge"}

\* Item i went through check_violation: it is in one of the two lists the
\* verdict fills.
C22_Checked(i) ==
    \/ \E a \in 1..Len(comparison.allowed_charges) :
          comparison.allowed_charges[a] = invoice_data[i]
    \/ \E d \in 1..Len(comparison.disallowed_charges) :
          comparison.disallowed_charges[d].item = invoice_data[i]

\* What holds of the first n items once the loop has handled them.
C22_Handled(n) ==
    /\ seen_descriptions = {Normalized(invoice_data[j].description) : j \in 1..n}
    /\ \A i \in 1..n :
          /\ C22_DuplicateEntries(i) # {} <=> C22_SeenBefore(i)
          /\ C22_SeenBefore(i) =>
                /\ ~C22_Checked(i)
                /\ \A m \in C22_DuplicateEntries(i) :
                      "clause_reference" \notin DOMAIN comparison.mismatches[m]
          /\ ~C22_SeenBefore(i) => C22_Checked(i)
    /\ Len(comparison.allowed_charges) + Len(comparison.disallowed_charges)
          = Cardinality({i \in 1..n : ~C22_SeenBefore(i)})

\* C22 as stated, for every call: in the report of a call on a non-empty
\* invoice, item i is flagged "Duplicate Charge" if and only if an earlier
\* item has the same lowercased, trimmed description; a flagged item did not
\* go through check_violation, its entry has no clause_reference and it is in
\* neither allowed_charges nor disallowed_charges.
C22_DuplicateIffSeenBefore ==
    pc = "done" /\ ~FalsyList(invoice_data) =>
        \A i \in 1..Len(invoice_data) :
            /\ C22_DuplicateEntries(i) # {} <=> C22_SeenBefore(i)
            /\ C22_SeenBefore(i) => ~C22_Checked(i)

\* C22, when the lease is neither empty nor absent: the seen-set starts
\* empty and only grows, it holds the descriptions of the items handled so
\* far, and item i is flagged "Duplicate Charge" if and only if an earlier
\* item has the same lowercased, trimmed description; such an item does not go
\* through check_violation, its entry has no clause_reference, and it is in
\* neither allowed_charges nor disallowed_charges; a first occurrence is never
\* flagged as a duplicate.
C22_DuplicateIffSeenBeforeGivenLease ==
    /\ [](pc \in {"loop", "done"} /\ ~FalsyDict(lease_data) /\ ~FalsyList(invoice_data)
             => C22_Handled(idx))
    /\ [][pc = "loop" /\ pc' = "loop" => seen_descriptions \subseteq seen_descriptions']_vars
    /\ [][pc = "idle" /\ pc' = "loop" => seen_descriptions' = {}]_vars

\* A report in which a repeated description is flagged as a duplicate although
\* its first occurrence was found a violation by check_violation.
C22_Witness ==
    /\ pc = "done" /\ ~FalsyDict(lease_data) /\ ~FalsyList(invoice_data)
    /\ \E i \in 1..Len(invoice_data), j \in 1..Len(invoice_data) :
          /\ j < i
          /\ Normalized(invoice_data[j].description) = Normalized(invoice_data[i].description)
          /\ invoice_data[j].description # invoice_data[i].description
          /\ C22_DuplicateEntries(i) # {}
          /\ \E d \in 1..Len(comparison.disallowed_charges) :
                comparison.disallowed_charges[d].item = invoice_data[j]

\* ------------------------------------------------------------------- C23

\* The legal-fee keywords and the tenant-action terms as the rule names them.
C23_LegalKeywords == {"legal fee", "attorney", "lawyer", "legal cost", "litigation"}
C23_TenantActionTerms == {"eviction", "collection", "tenant", "default", "breach"}

\* What rules 3 to 6 make of a call.
C23_RulesThreeToSix(c) ==
    IF ContainsAny(Lower(c.description), capital_improvement_keywords)
    THEN CapitalImprovementVerdict(c.lease_data)
    ELSE ManagementOrLater(Lower(c.description), c.amount, c.category,
                           c.lease_data, c.total_invoice)

\* C23: an item whose description holds a legal-fee keyword and a
\* tenant-action term is never reported as "Legal Fees Unrelated to Tenant";
\* unless rule 1 took it, its verdict is the one of rules 3 to 6. A legal-fee
\* item without a tenant-action term that rule 1 did not take is always
\* reported under that reason.
C23_LegalFeesAndTenantTerms ==
    call # NoCall /\ call.fn = "check_violation" =>
        LET desc_lower == Lower(call.description)
            legal == ContainsAny(desc_lower, C23_LegalKeywords)
            tenant == ContainsAny(desc_lower, C23_TenantActionTerms)
            first_rule == ContainsAny(desc_lower, utility_markup_keywords)
        IN  /\ legal /\ tenant =>
                /\ call.ret.reason # "Legal Fees Unrelated to Tenant"
                /\ ~first_rule => call.ret = C23_RulesThreeToSix(call)
            /\ legal /\ ~tenant /\ ~first_rule =>
                /\ call.ret.is_violation
                /\ call.ret.reason = "Legal Fees Unrelated to Tenant"

\* A legal-fee item with a tenant-action term that a later rule flags.
C23_Witness ==
    /\ call # NoCall /\ call.fn = "check_violation"
    /\ ContainsAny(Lower(call.description), C23_LegalKeywords)
    /\ ContainsAny(Lower(call.description), C23_TenantActionTerms)
    /\ call.ret.is_violation
    /\ call.ret.reason # "Legal Fees Unrelated to Tenant"

\* ------------------------------------------------------------------- C24

\* Item i is a mismatch: a repeated description, or a violation of a rule.
C24_Mismatch(i) ==
    \/ C22_SeenBefore(i)
    \/ check_violation(invoice_data[i].description, invoice_data[i].amount,
                       invoice_data[i].category, lease_data,
                       SumAmounts(invoice_data, Len(invoice_data))).is_violation

\* C24: in every report on a non-empty lease and a non-empty invoice the
\* summary's number_of_items is the number of items, number_of_mismatches is
\* the length of mismatches, which holds the duplicates and the rule
\* violations, total_invoice_amount is the sum of all amounts, and
\* overcharge_percentage is total_overcharge / total_invoice_amount * 100 when
\* that total is greater than 0, and 0 otherwise.
C24_SummaryCounts ==
    pc = "done" /\ LeaseGiven /\ ~FalsyList(invoice_data) =>
        LET total == SumAmounts(invoice_data, Len(invoice_data))
        IN  /\ comparison.summary.number_of_items = Len(invoice_data)
            /\ comparison.summary.number_of_mismatches = Len(comparison.mismatches)
            /\ Len(comparison.mismatches)
                  = Cardinality({i \in 1..Len(invoice_data) : C24_Mismatch(i)})
            /\ comparison.summary.total_invoice_amount = total
            /\ comparison.summary.overcharge_percentage
                  = IF FGt(total, FromInt(0))
                    THEN FMul(FDiv(comparison.summary.total_overcharge, total), FromInt(100))
                    ELSE FromInt(0)
            /\ comparison.summary.total_overcharge = comparison.total_overcharge

\* A report with a duplicate, a rule violation and an allowed charge.
C24_Witness ==
    /\ pc = "done" /\ LeaseGiven /\ ~FalsyList(invoice_data)
    /\ Len(comparison.disallowed_charges) > 0
    /\ Len(comparison.mismatches) > Len(comparison.disallowed_charges)
    /\ comparison.summary.number_of_mismatches < comparison.summary.number_of_items
    /\ FGt(comparison.summary.overcharge_percentage, FromInt(0))

\* A report on an invoice whose amounts are all 0, one of them flagged.
C24_ZeroTotal ==
    /\ pc = "done" /\ LeaseGiven /\ ~FalsyList(invoice_data)
    /\ comparison.summary.total_invoice_amount = FromInt(0)
    /\ comparison.summary.number_of_mismatches > 0
    /\ comparison.summary.overcharge_percentage = FromInt(0)

\* ------------------------------------------------------------------- C25

\* The last call is a lease extraction whose AI route succeeded.
C25_AiSucceeded ==
    /\ IsExtractLeaseCall
    /\ call.api_key # ""
    /\ ~call.answer.raises
    /\ ~AiRouteRaises(call.answer.json)

\* The six collections of clause items of a lease of the AI route, each with
\* the array of the answer it is made from.
C25_Collections ==
    {<<"cam_rules", "cam_rules">>, <<"allowed_fees", "allowed_fees">>,
     <<"disallowed_fees", "disallowed_fees">>, <<"taxes_details", "taxes">>,
     <<"utilities_details", "utilities">>,
     <<"escalation_caps_details", "escalation_caps">>}

\* The reference the answer gave for an item is missing, empty or blank.
C25_NoReference(item) ==
    \/ "clause_reference" \notin DOMAIN item
    \/ Strip(item.clause_reference) = ""

\* C25: after a successful AI lease extraction every clause item of cam_rules,
\* taxes_details, utilities_details, escalation_caps_details, allowed_fees and
\* disallowed_fees has a non-empty clause_reference, "See lease document"
\* where the answer's reference was missing, empty or whitespace only and the
\* answer's reference otherwise; and every key of the taxes, utilities and
\* escalation_caps mappings has an item of that type in the matching
\* *_details list.
C25_ReferencesAndDetails ==
    C25_AiSucceeded =>
        /\ \A pair \in C25_Collections :
              LET items == call.ret[pair[1]]
                  given == call.answer.json[pair[2]]
              IN  /\ Len(items) = Len(given)
                  /\ \A i \in 1..Len(items) :
                        /\ "clause_reference" \in DOMAIN items[i]
                        /\ Strip(items[i].clause_reference) # ""
                        /\ items[i].clause_reference
                              = IF C25_NoReference(given[i]) THEN Sentinel
                                ELSE given[i].clause_reference
        /\ \A key \in TypedSections :
              \A type \in DOMAIN call.ret[key] :
                 \E i \in 1..Len(call.ret[DetailsOf(key)]) :
                    /\ call.ret[DetailsOf(key)][i].type = type
                    /\ call.ret[DetailsOf(key)][i].exact_wording = call.ret[key][type]

\* A successful extraction whose answer gave a whitespace-only reference and
\* left another out: both items cite "See lease document", and the utilities
\* mapping has its key.
C25_Witness ==
    /\ C25_AiSucceeded
    /\ \E i \in 1..Len(call.answer.json.utilities) :
          /\ call.answer.json.utilities[i].clause_reference # ""
          /\ Strip(call.answer.json.utilities[i].clause_reference) = ""
          /\ call.ret.utilities_details[i].clause_reference = Sentinel
          /\ call.answer.json.utilities[i].type \in DOMAIN call.ret.utilities
    /\ \E i \in 1..Len(call.answer.json.allowed_fees) :
          /\ "clause_reference" \notin DOMAIN call.answer.json.allowed_fees[i]
          /\ call.ret.allowed_fees[i].clause_reference = Sentinel

\* ------------------------------------------------------------------- C26

\* C26: compare_lease_invoice, with the calls of check_violation and
\* find_relevant_clause it makes, leaves its inputs unchanged: from the entry
\* of a call to its return the lease (raw_text included) and the list of line
\* items, each item's fields and the order of the list, are what they were
\* when the call began.
C26_InputsUnchanged ==
    [][pc # "idle" /\ pc' # "idle" =>
          /\ lease_data' = lease_data
          /\ invoice_data' = invoice_data]_vars

\* A finished call on a lease with its raw_text and an invoice of several
\* items of which one was flagged and one allowed.
C26_Witness ==
    /\ pc = "done" /\ LeaseGiven /\ ~FalsyList(invoice_data)
    /\ "raw_text" \in DOMAIN lease_data
    /\ Len(invoice_data) > 1
    /\ Len(comparison.disallowed_charges) > 0
    /\ Len(comparison.allowed_charges) > 0

\* ------------------------------------------------------------------- C27

\* The last call is a check_violation that found a violation.
C27_Violating ==
    /\ call # NoCall /\ call.fn = "check_violation"
    /\ call.ret.is_violation

\* C27: for every violating verdict of check_violation, under every rule,
\* "Management Fee Not Allowed" included, the clause reference returned is
\* empty or a real citation, never "See lease document", and the explanation
\* does not cite the placeholder.
C27_VerdictNeverCitesSentinel ==
    C27_Violating =>
        /\ call.ret.clause_reference = "" \/ IsRealRef(call.ret.clause_reference)
        /\ ~Contains(call.ret.explanation, "(See " \o Sentinel \o ")")

\* The same, for every rule but "Management Fee Not Allowed".
C27_OtherRulesNeverCiteSentinel ==
    C27_Violating /\ call.ret.reason # "Management Fee Not Allowed" =>
        /\ call.ret.clause_reference = "" \/ IsRealRef(call.ret.clause_reference)
        /\ ~Contains(call.ret.explanation, "(See " \o Sentinel \o ")")

\* A management fee reported as not allowed whose verdict cites the
\* placeholder of the lease entry.
C27_Witness ==
    /\ C27_Violating
    /\ call.ret.reason = "Management Fee Not Allowed"
    /\ call.ret.clause_reference = Sentinel
    /\ Contains(call.ret.explanation, "(See See lease document)")

\* ------------------------------------------------------------------- C28

\* find_relevant_clause returns "" for the lease, whatever the search term
\* and the category.
C28_AlwaysEmpty(lease) ==
    \A t \in 1..Len(SearchTermPool), category \in Categories \cup {NoneStr} :
        find_relevant_clause(lease, SearchTermPool[t], category) = ""

\* find_relevant_clause returns "" for the lease under no search term and no
\* category.
C28_NeverEmpty(lease) ==
    \A t \in 1..Len(SearchTermPool), category \in Categories \cup {NoneStr} :
        find_relevant_clause(lease, SearchTermPool[t], category) # ""

\* C28 as stated: find_relevant_clause returns "" if and only if no entry of
\* the six collections has a clause_reference that is non-empty and is not
\* "See lease document".
C28_EmptyIffNoStoredReference ==
    IsClauseCall =>
        (call.ret = "" <=>
            ~\E ref \in StoredRefs(call.lease_data) : ref # "" /\ ref # Sentinel)

\* C28, with references read as the function reads them: whether
\* find_relevant_clause returns "" depends on the lease alone, not on the
\* search term or the category; it returns "" if and only if no entry of the
\* six collections has a clause_reference that, with the surrounding
\* whitespace removed, is non-empty and is not "See lease document" in any
\* letter case. Hence in rule 1 the second lookup, made when the first
\* returned "", returns "" as well.
C28_EmptyIffNoRealReference ==
    /\ IsClauseCall =>
          /\ call.ret = "" <=>
                ~\E ref \in StoredRefs(call.lease_data) :
                     Strip(ref) # "" /\ Lower(Strip(ref)) # Lower(Sentinel)
          /\ IF call.ret = "" THEN C28_AlwaysEmpty(call.lease_data)
             ELSE C28_NeverEmpty(call.lease_data)
    /\ (call # NoCall /\ call.fn = "check_violation"
           /\ call.ret.reason = "Utility Admin Fee / Markup"
           /\ find_relevant_clause(call.lease_data, "utility", "Utilities") = "") =>
          /\ find_relevant_clause(call.lease_data, "disallowed", NoneStr) = ""
          /\ call.ret.clause_reference = ""

\* A lookup that returns "" on a lease whose entries all carry a reference:
\* the placeholder, as written or in other letters.
C28_Witness ==
    /\ IsClauseCall
    /\ call.ret = ""
    /\ StoredRefs(call.lease_data) # {}
    /\ \A ref \in StoredRefs(call.lease_data) : ref # ""
    /\ \E ref \in StoredRefs(call.lease_data) : ref # Sentinel

\* A lookup whose term is in no wording, answered by the fallback scan.
C28_FallbackAnswers ==
    /\ IsClauseCall
    /\ call.search_term = "legal" /\ call.category = NoneStr
    /\ call.ret # ""

\* ------------------------------------------------------------------- C29

\* A call has returned its report on an invoice whose amounts are all
\* non-negative.
C29_NonNegativeInvoice ==
    /\ pc = "done"
    /\ 0 \notin DOMAIN invoice_data
    /\ \A i \in 1..Len(invoice_data) : FLe(FromInt(0), invoice_data[i].amount)

\* The sum of the amounts in allowed_charges.
C29_AllowedSum == SumAmounts(comparison.allowed_charges, Len(comparison.allowed_charges))

\* The bounds of the report: 0 <= total_overcharge <= total_invoice_amount,
\* total_allowed >= 0, 0 <= overcharge_percentage <= 100 (the fields of an
\* empty summary read as 0).
C29_Bounds ==
    /\ FLe(FromInt(0), comparison.total_overcharge)
    /\ FLe(comparison.total_overcharge, SummaryField("total_invoice_amount"))
    /\ FLe(FromInt(0), SummaryField("total_allowed"))
    /\ FLe(FromInt(0), SummaryField("overcharge_percentage"))
    /\ FLe(SummaryField("overcharge_percentage"), FromInt(100))

\* The exponent of the unit in which total_allowed, the sum of the allowed
\* amounts, the total and the overcharge are all integers.
C29_Unit ==
    Min(Min(SummaryField("total_allowed").e, C29_AllowedSum.e),
        Min(SummaryField("total_invoice_amount").e, comparison.total_overcharge.e))

C30_FlaggedByRuleFive ==
    /\ call # NoCall /\ call.fn = "check_violation"
    /\ call.ret.is_violation
    /\ StartsWith(call.ret.reason, "Disallowed Fee: ")

\* The disallowed_fees of the lease of the last call.
C30_Entries == Get(call.lease_data, "disallowed_fees", << >>)

\* The wording of entry k is non-empty and overlaps with the description: it
\* occurs in it, or one of its words longer than 3 characters does.
C30_Overlaps(k) ==
    LET wording == Lower(FeeText(C30_Entries[k]))
        desc_lower == Lower(call.description)
    IN  /\ wording # ""
        /\ \/ Contains(desc_lower, wording)
           \/ \E word \in Words(wording) : Len(word) > 3 /\ Contains(desc_lower, word)

\* C30: rule 5 flags an item only on a textual overlap with a disallowed
\* entry: an item reported as "Disallowed Fee" has some disallowed_fees entry
\* with a non-empty exact_wording that occurs in the description or has a word
\* longer than 3 characters occurring in it; an entry with an empty
\* exact_wording flags no item.
C30_FlagsOnlyOnOverlap ==
    C30_FlaggedByRuleFive =>
        /\ \E k \in 1..Len(C30_Entries) : C30_Overlaps(k)
        /\ call.ret.reason # "Disallowed Fee: "

\* The same, for the leases in which every disallowed entry has a wording.
C30_FlagsOnlyOnOverlapGivenWordings ==
    (C30_FlaggedByRuleFive
        /\ \A k \in 1..Len(C30_Entries) : FeeText(C30_Entries[k]) # "") =>
        \E k \in 1..Len(C30_Entries) : C30_Overlaps(k)

\* An item that shares no text with the lease, flagged by the entry whose
\* exact_wording is empty.
C30_Witness ==
    /\ C30_FlaggedByRuleFive
    /\ call.ret.reason = "Disallowed Fee: "
    /\ call.description = "Base Rent"
    /\ \A k \in 1..Len(C30_Entries) : ~C30_Overlaps(k)

====
